---- MODULE Spec2Model ----
(***************************************************************************)
(* A state-machine model of agentracer-node: the config store, the        *)
(* AsyncLocalStorage context slots, track / sendTelemetry, the OpenAI,     *)
(* Anthropic and Gemini adapters and their stream wrappers.                *)
(*                                                                         *)
(* JavaScript values are tagged records, so that `??`, `?.`, truthiness,   *)
(* object spread and destructuring are computed as the code computes them. *)
(* Wall-clock time is one fixed measurement (Elapsed) per adapter call.    *)
(***************************************************************************)
EXTENDS Integers, Sequences, FiniteSets, TLC

\* ------------------------------------------------------------------ bounds
\* Number of concurrent call chains.
NumChains == 2
\* Deepest nesting of observe / execute scopes a chain enters.
MaxDepth == 2
\* Steps allocated to one run.
MaxSteps == 2
\* Longest source stream.
MaxLen == 2
\* next() calls the consumer makes after the wrapped stream has completed.
MaxExtraPulls == 1
\* init() calls.
MaxInits == 2

Chains == 1..NumChains

\* ------------------------------------------------------- JavaScript values
JUndef == [t |-> "undefined"]
JNull == [t |-> "null"]
JStr(s) == [t |-> "string", v |-> s]
JNum(n) == [t |-> "number", v |-> n]
JBool(b) == [t |-> "boolean", v |-> b]
JObj(f) == [t |-> "object", v |-> f]
\* An array value; its elements are never read by the code modelled here.
JArr == [t |-> "array"]

EmptyObj == JObj(<<>>)

\* x == null (null or undefined), the test behind `??` and `?.`.
Nullish(x) == x.t \in {"undefined", "null"}

\* a ?? b
Coalesce(a, b) == IF Nullish(a) THEN b ELSE a

\* ToBoolean(x)
Truthy(x) ==
    CASE x.t = "undefined" -> FALSE
      [] x.t = "null" -> FALSE
      [] x.t = "string" -> x.v # ""
      [] x.t = "number" -> x.v # 0
      [] x.t = "boolean" -> x.v
      [] OTHER -> TRUE

\* o.k for a non-nullish o (an own property, else undefined).
Get(o, k) == IF o.t = "object" /\ k \in DOMAIN o.v THEN o.v[k] ELSE JUndef

\* o?.k
OptGet(o, k) == IF Nullish(o) THEN JUndef ELSE Get(o, k)

\* "k" in o
Has(o, k) == o.t = "object" /\ k \in DOMAIN o.v

\* The own properties spread by {...o}: none for undefined and null.
Props(o) == IF o.t = "object" THEN o.v ELSE <<>>

\* {...a, ...b}
Spread(a, b) == JObj(Props(b) @@ Props(a))

\* const {k, ...rest} = o  (rest)
Omit(o, k) == JObj([x \in (DOMAIN Props(o)) \ {k} |-> Props(o)[x]])

\* {...o, k: val} / o.k = val on a fresh object
With(o, k, val) == JObj((k :> val) @@ Props(o))

\* Every object whose keys are a subset of keys and whose values are in vals.
PartialObjs(keys, vals) == {JObj(f) : f \in UNION {[D -> vals] : D \in SUBSET keys}}

Last(s) == s[Len(s)]


RunIds == {"run-1"}

Max(S) == CHOOSE x \in S : \A y \in S : y <= x

\* ------------------------------------------------------------------- state
VARIABLES
    config,       \* the config singleton (a JS object)
    inits,        \* the options of the init() calls made, in call order
    scopes,       \* per chain: the AsyncLocalStorage.run frames it is inside, innermost last
    stepCounter,  \* per run id: AgentRun.stepCounter
    signals,      \* per chain: the sendRunApi invocations of its latest execute
    execution,    \* per chain: its latest AgentRun.execute: how its function (body) and it settled
    pc,           \* per chain: "idle", "awaitClient" or "streaming"
    call,         \* per chain: the locals of its latest call (wrapped call or manual track)
    result,       \* per chain: what the latest wrapped call gave its caller
    gen,          \* per chain: the wrapped stream (async generator) of the latest call
    source,       \* per chain: the events the real stream has produced
    srcState,     \* per chain: "open", "done" or "threw"
    delivered,    \* per chain: the events the wrapped stream has yielded
    extraPulls,   \* per chain: next() calls made on the completed wrapped stream
    tel           \* per chain: the track invocations of its latest call, each with its send

vars == <<config, inits, scopes, stepCounter, signals, execution, pc, call, result,
          gen, source, srcState, delivered, extraPulls, tel>>

cfgVars == <<config, inits>>
runVars == <<stepCounter, signals, execution>>
callVars == <<pc, call, result>>
streamVars == <<gen, source, srcState, delivered, extraPulls>>

\* ------------------------------------------------------------ config store
DefaultConfig ==
    JObj([trackerApiKey |-> JStr(""),
          projectId |-> JStr(""),
          environment |-> JStr("production"),
          host |-> JStr("https://api.agentracer.dev"),
          debug |-> JBool(FALSE),
          enabled |-> JBool(TRUE)])

getConfig == config

\* The option objects init() is called with.
InitOptions ==
    {JObj([trackerApiKey |-> JStr("key"), projectId |-> JStr("proj-1")] @@ o) :
        o \in {<<>>,
               [enabled |-> JBool(FALSE)],
               [environment |-> JStr("staging")],
               [debug |-> JBool(TRUE), host |-> JStr("http://localhost:3000")],
               [environment |-> JUndef]}}
    \cup {JObj([trackerApiKey |-> JStr("key-2")])}

\* init(options) starting over from the built-in defaults.
initFromDefaults(options) ==
    /\ Len(inits) < MaxInits
    /\ config' = Spread(DefaultConfig, options)
    /\ inits' = Append(inits, options)
    /\ UNCHANGED <<scopes, runVars, callVars, streamVars, tel>>

\* init(options): config = { ...config, ...options }
init(options) ==
    /\ Len(inits) < MaxInits
    /\ config' = Spread(config, options)
    /\ inits' = Append(inits, options)
    /\ UNCHANGED <<scopes, runVars, callVars, streamVars, tel>>

\* ------------------------------------------------------ context propagation
\* One process-wide slot in place of the per-chain store: the value of the
\* innermost frame of the highest-numbered chain that is inside one.
storeOfShared(c, slot) ==
    LET F == {f \in Chains \X (1..(2 * MaxDepth)) :
                 /\ f[2] \in DOMAIN scopes[f[1]]
                 /\ scopes[f[1]][f[2]].slot = slot}
    IN  IF F = {}
        THEN JUndef
        ELSE LET top == CHOOSE f \in F :
                            \A g \in F : g[1] < f[1] \/ (g[1] = f[1] /\ g[2] <= f[2])
             IN  scopes[top[1]][top[2]].store

\* One stack of stores for both slots: only the run() frame entered last is
\* read, and it answers for its own slot alone.
storeOfTop(c, slot) ==
    IF scopes[c] # <<>> /\ Last(scopes[c]).slot = slot
    THEN Last(scopes[c]).store
    ELSE JUndef

\* The store of an AsyncLocalStorage slot in chain c: that of the innermost
\* run() frame of the slot the chain is inside, whatever other chains ran in
\* between; undefined outside every frame of the slot.
storeOf(c, slot) ==
    LET I == {i \in DOMAIN scopes[c] : scopes[c][i].slot = slot}
    IN  IF I = {} THEN JUndef ELSE scopes[c][Max(I)].store

\* featureTagStorage.getStore() evaluated in chain c.
getStore(c) == storeOf(c, "featureTag")

\* runStorage.getStore() evaluated in chain c: the active run (its id).
getRun(c) == storeOf(c, "run")

\* Number of observe / execute scopes chain c is inside.
Depth(c) == Cardinality({i \in DOMAIN scopes[c] : scopes[c][i].slot = "featureTag"})

\* observe(fn, {featureTag})(...): chain c enters featureTagStorage.run(tag, ...).
observe(c, tag) ==
    /\ pc[c] = "idle"
    /\ Depth(c) < MaxDepth
    /\ scopes' = [scopes EXCEPT ![c] =
                     Append(@, [slot |-> "featureTag", store |-> JStr(tag), by |-> "observe"])]
    /\ UNCHANGED <<cfgVars, runVars, callVars, streamVars, tel>>

\* The observed function has completed and chain c goes on after the
\* featureTagStorage.run(...) it awaited: the enclosing stores are current again.
exitScope(c) ==
    /\ pc[c] = "idle"
    /\ scopes[c] # <<>>
    /\ Last(scopes[c]).by = "observe"
    /\ scopes' = [scopes EXCEPT ![c] = SubSeq(@, 1, Len(@) - 1)]
    /\ UNCHANGED <<cfgVars, runVars, callVars, streamVars, tel>>

\* ---------------------------------------------------------------- telemetry
\* The outcomes of the fetch() a send awaits.
FetchOutcomes == {"ok", "non2xx", "networkError", "timeout"}

\* How the promise settles when the rejection of fetch is not caught.
sendSettleUncaught(outcome) ==
    IF outcome \in {"networkError", "timeout"} THEN "rejected" ELSE "resolved"

\* How the promise of sendTelemetry / sendRunApi settles once its fetch has:
\* fetch rejects on a network error and on the abort of AbortSignal.timeout,
\* and the try/catch around the await swallows the rejection.
sendSettle(outcome) == "resolved"

\* sendTelemetry(payload) up to its await: nothing when disabled, else one POST
\* to {host}/api/ingest.
sendTelemetry(payload) ==
    IF ~Truthy(Get(config, "enabled"))
    THEN [path |-> "/api/ingest", payload |-> payload, fetch |-> "none", posts |-> 0,
          promise |-> "resolved"]
    ELSE [path |-> "/api/ingest", payload |-> payload, fetch |-> "pending", posts |-> 1,
          promise |-> "pending"]

\* sendRunApi without the test of config.enabled.
sendRunApiAlways(path, payload) ==
    [path |-> path, payload |-> payload, fetch |-> "pending", posts |-> 1,
          promise |-> "pending"]

\* sendRunApi(path, payload) up to its await.
sendRunApi(path, payload) ==
    IF ~Truthy(Get(config, "enabled"))
    THEN [path |-> path, payload |-> payload, fetch |-> "none", posts |-> 0,
          promise |-> "resolved"]
    ELSE [path |-> path, payload |-> payload, fetch |-> "pending", posts |-> 1,
          promise |-> "pending"]

\* Auto-attribution whenever a run is active, whatever runId was supplied.
trackAutoInAnyRun(c, options) == ~Nullish(getRun(c))

\* track: activeRun && runId == null
trackAuto(c, options) == ~Nullish(getRun(c)) /\ Nullish(Get(options, "runId"))

trackRunId(c, options) ==
    IF trackAuto(c, options) THEN getRun(c) ELSE Get(options, "runId")

\* A step index read before the counter is incremented.
trackStepIndexPostIncrement(c, options) ==
    IF trackAuto(c, options)
    THEN JNum(stepCounter[getRun(c).v])
    ELSE Get(options, "stepIndex")

\* A step index fixed by the order of dispatch: that of the dispatching chain.
trackStepIndexByDispatch(c, options) ==
    IF trackAuto(c, options) THEN JNum(c) ELSE Get(options, "stepIndex")

\* A step index allocated only when the caller supplied none.
trackStepIndexUnlessGiven(c, options) ==
    IF trackAuto(c, options)
    THEN Coalesce(Get(options, "stepIndex"), JNum(stepCounter[getRun(c).v] + 1))
    ELSE Get(options, "stepIndex")

\* activeRun._nextStep() is ++this.stepCounter
trackStepIndex(c, options) ==
    IF trackAuto(c, options)
    THEN JNum(stepCounter[getRun(c).v] + 1)
    ELSE Get(options, "stepIndex")

\* The body POSTed to /api/runs/step.
trackStepPayload(c, options) ==
    JObj([project_id |-> Get(config, "projectId"),
          run_id |-> getRun(c),
          step_index |-> trackStepIndex(c, options),
          step_type |-> JStr("llm_call"),
          model |-> Get(options, "model"),
          provider |-> Coalesce(Get(options, "provider"), JStr("custom")),
          input_tokens |-> Get(options, "inputTokens"),
          output_tokens |-> Get(options, "outputTokens"),
          cached_tokens |-> Coalesce(Get(options, "cachedTokens"), JNum(0)),
          cost_usd |-> JNum(0),
          latency_ms |-> Get(options, "latencyMs"),
          success |-> Coalesce(Get(options, "success"), JBool(TRUE)),
          error_type |-> Coalesce(Get(options, "errorType"), JNull)])

\* payload.k = x ?? null
OptFieldOrNull(k, x) == k :> Coalesce(x, JNull)

\* if (x != null) payload.k = x
OptField(k, x) == IF Nullish(x) THEN <<>> ELSE (k :> x)

\* The payload track builds for /api/ingest.
trackPayload(c, options) ==
    JObj([project_id |-> Get(config, "projectId"),
          provider |-> Coalesce(Get(options, "provider"), JStr("custom")),
          model |-> Get(options, "model"),
          feature_tag |-> Coalesce(Coalesce(Get(options, "featureTag"), getStore(c)),
                                   JStr("unknown")),
          input_tokens |-> Get(options, "inputTokens"),
          output_tokens |-> Get(options, "outputTokens"),
          cached_tokens |-> Coalesce(Get(options, "cachedTokens"), JNum(0)),
          latency_ms |-> Get(options, "latencyMs"),
          success |-> Coalesce(Get(options, "success"), JBool(TRUE)),
          environment |-> Coalesce(Get(options, "environment"), Get(config, "environment"))]
         @@ OptField("error_type", Get(options, "errorType"))
         @@ OptField("end_user_id", Get(options, "endUserId"))
         @@ OptField("run_id", trackRunId(c, options))
         @@ OptField("step_index", trackStepIndex(c, options)))

\* track(options) called in chain c, up to its await of sendTelemetry; prior
\* are the track invocations of the same call made before. The record keeps
\* the frames the chain was inside when track was called.
track(c, options, prior) ==
    /\ tel' = [tel EXCEPT ![c] =
                  Append(prior, [options |-> options, frames |-> scopes[c]]
                                @@ sendTelemetry(trackPayload(c, options)))]
    /\ stepCounter' =
          IF trackAuto(c, options)
          THEN [stepCounter EXCEPT ![getRun(c).v] = @ + 1]
          ELSE stepCounter
    /\ signals' =
          IF trackAuto(c, options)
          THEN [signals EXCEPT ![c] =
                   Append(@, sendRunApi("/api/runs/step", trackStepPayload(c, options)))]
          ELSE signals

\* A fetch with no abort signal: it settles only when the collector answers.
PostSettleNoAbort(c, i, outcome) ==
    /\ outcome # "timeout"
    /\ i \in DOMAIN tel[c]
    /\ tel[c][i].fetch = "pending"
    /\ tel' = [tel EXCEPT ![c][i].fetch = outcome, ![c][i].promise = sendSettle(outcome)]
    /\ UNCHANGED <<cfgVars, scopes, runVars, callVars, streamVars>>

\* A send that posts again when its fetch has failed.
PostSettleRetries(c, i, outcome) ==
    /\ i \in DOMAIN tel[c]
    /\ tel[c][i].fetch = "pending"
    /\ tel' = IF outcome # "ok" /\ tel[c][i].posts < 2
              THEN [tel EXCEPT ![c][i].posts = @ + 1]
              ELSE [tel EXCEPT ![c][i].fetch = outcome, ![c][i].promise = sendSettle(outcome)]
    /\ UNCHANGED <<cfgVars, scopes, runVars, callVars, streamVars>>

\* The fetch of chain c's i-th track invocation settles.
PostSettle(c, i, outcome) ==
    /\ i \in DOMAIN tel[c]
    /\ tel[c][i].fetch = "pending"
    /\ tel' = [tel EXCEPT ![c][i].fetch = outcome, ![c][i].promise = sendSettle(outcome)]
    /\ UNCHANGED <<cfgVars, scopes, runVars, callVars, streamVars>>

\* The fetch of chain c's i-th sendRunApi call settles.
SignalSettle(c, i, outcome) ==
    /\ i \in DOMAIN signals[c]
    /\ signals[c][i].fetch = "pending"
    /\ signals' = [signals EXCEPT ![c][i].fetch = outcome,
                                  ![c][i].promise = sendSettle(outcome)]
    /\ UNCHANGED <<cfgVars, scopes, stepCounter, execution, callVars, streamVars, tel>>

NoCall == [op |-> "none"]
NoResult == [kind |-> "none"]
NoGen == [state |-> "none"]

\* The stream state of a chain that holds no wrapped stream.
ResetStream(c) ==
    /\ gen' = [gen EXCEPT ![c] = NoGen]
    /\ source' = [source EXCEPT ![c] = <<>>]
    /\ srcState' = [srcState EXCEPT ![c] = "open"]
    /\ delivered' = [delivered EXCEPT ![c] = <<>>]
    /\ extraPulls' = [extraPulls EXCEPT ![c] = 0]

\* A manual track(options) call made by chain c.
ManualTrack(c, options) ==
    /\ pc[c] = "idle"
    /\ track(c, options, <<>>)
    /\ call' = [call EXCEPT ![c] = [op |-> "track", options |-> options]]
    /\ result' = [result EXCEPT ![c] = NoResult]
    /\ ResetStream(c)
    /\ UNCHANGED <<cfgVars, scopes, execution, pc>>

\* ----------------------------------------------------------- adapter inputs
FeatureTagArgs ==
    {<<>>} \cup {[feature_tag |-> x] : x \in {JUndef, JNull, JStr(""), JStr("x")}}

StreamArgs == {<<>>, [stream |-> JBool(TRUE)], [stream |-> JBool(FALSE)]}

StreamOptionArgs ==
    {<<>>,
     [stream_options |-> JObj([some_other |-> JBool(TRUE)])],
     [stream_options |-> JObj([include_usage |-> JBool(FALSE), some_other |-> JBool(TRUE)])]}

\* Parameter objects of chat.completions.create / messages.create.
ChatParams ==
    {JObj([model |-> JStr("gpt-4"), messages |-> JStr("hi")] @@ f @@ s @@ o) :
        f \in FeatureTagArgs, s \in StreamArgs, o \in StreamOptionArgs}

\* Arguments of generateContent / generateContentStream: a prompt string, an
\* array of parts, or a request object.
GeminiParams ==
    {JStr("Hello"), JArr}
    \cup {JObj([contents |-> JStr("hi")] @@ f) : f \in FeatureTagArgs}

\* Arguments of getGenerativeModel.
GeminiModelParams == {JObj([model |-> JStr("gemini-pro")]), EmptyObj}

\* What the real clients resolve with on a non-streaming call.
OpenAIResponses ==
    {JObj([id |-> JStr("resp")] @@ u) :
        u \in {<<>>,
               [usage |-> JObj([prompt_tokens |-> JNum(1), completion_tokens |-> JNum(2)])],
               [usage |-> JObj([completion_tokens |-> JNum(2)])],
               [usage |-> JObj([prompt_tokens |-> JNum(2), completion_tokens |-> JNum(1),
                                prompt_tokens_details |-> JObj([cached_tokens |-> JNum(1)])])]}}

AnthropicResponses ==
    {JObj([id |-> JStr("msg")] @@ u) :
        u \in {<<>>,
               [usage |-> JObj([input_tokens |-> JNum(1), output_tokens |-> JNum(2)])],
               [usage |-> JObj([input_tokens |-> JNum(1)])],
               [usage |-> JObj([input_tokens |-> JNum(2), output_tokens |-> JNum(1),
                                cache_read_input_tokens |-> JNum(1)])]}}

GeminiResults ==
    {JObj(r) :
        r \in {<<>>,
               [response |-> JObj([usageMetadata |->
                    JObj([promptTokenCount |-> JNum(1), candidatesTokenCount |-> JNum(2)])])],
               [response |-> JObj([usageMetadata |-> JObj([candidatesTokenCount |-> JNum(2)])])],
               [response |-> JObj([usageMetadata |->
                    JObj([promptTokenCount |-> JNum(2), candidatesTokenCount |-> JNum(1),
                          cachedContentTokenCount |-> JNum(1)])])]}}

\* What the real clients resolve with on a streaming call.
RealStream == JObj([id |-> JStr("stream")])
\* The promise of the aggregated response a Gemini stream result carries, with
\* what it resolves to.
ResponsePromise ==
    [t |-> "promise",
     settles |-> JObj([usageMetadata |->
                          JObj([promptTokenCount |-> JNum(1), candidatesTokenCount |-> JNum(2)])])]

\* What the real generateContentStream resolves with: the stream, the response
\* promise and one more field.
GeminiStreamResult ==
    JObj([stream |-> RealStream, response |-> ResponsePromise, requestId |-> JStr("req-1")])

\* The wrapped stream (the async generator object) an adapter returns.
WrappedStream == [t |-> "generator"]

\* What a real client or a source stream raises: errors of a named class, an
\* error of an anonymous class (whose name is the empty string), an object
\* with no constructor, and a thrown null.
Errors ==
    {JObj([message |-> JStr("rate limited"), constructor |-> JObj([name |-> JStr("APIError")])]),
     JObj([message |-> JStr("boom"), constructor |-> JObj([name |-> JStr("Error")])]),
     JObj([message |-> JStr("anonymous"), constructor |-> JObj([name |-> JStr("")])]),
     JObj([message |-> JStr("bare")]),
     JNull}

TokenNums == {JNum(1), JNum(2)}

\* ------------------------------------------------------------ adapter code
\* params.feature_tag ?? featureTagStorage.getStore() ?? "unknown"
resolveFeatureTag(c, params) ==
    Coalesce(Coalesce(Get(params, "feature_tag"), getStore(c)), JStr("unknown"))

\* const { feature_tag, ...cleanParams } = params
cleanParams(params) == Omit(params, "feature_tag")

\* A create that asks a streaming call for usage by replacing stream_options.
openaiForwardedUsageOnly(params) ==
    IF Truthy(Get(cleanParams(params), "stream"))
    THEN With(cleanParams(params), "stream_options", JObj([include_usage |-> JBool(TRUE)]))
    ELSE cleanParams(params)

\* The object createOpenAIProxy's create hands to client.chat.completions.create.
openaiForwarded(params) ==
    IF Truthy(Get(cleanParams(params), "stream"))
    THEN With(cleanParams(params), "stream_options",
              Spread(Get(cleanParams(params), "stream_options"),
                     JObj([include_usage |-> JBool(TRUE)])))
    ELSE cleanParams(params)

\* The object createAnthropicProxy's create hands to client.messages.create.
anthropicForwarded(params) == cleanParams(params)

\* An adapter that strips and injects on the object it was given:
\* delete params.feature_tag; params.stream_options = {...}
callerParamsInPlace(params) == openaiForwarded(params)

\* The caller's object once the adapter has run. The adapters only read it:
\* `const { feature_tag, ...cleanParams } = params` and `{...x, include_usage:
\* true}` build new objects, and stream_options is assigned on cleanParams.
callerParams(params) == params

\* extractFeatureTag(params): [featureTag, cleanParams]
extractFeatureTag(c, params) ==
    IF Truthy(params) /\ params.t = "object" /\ Truthy(Get(params, "feature_tag"))
    THEN <<Get(params, "feature_tag"), Omit(params, "feature_tag")>>
    ELSE <<Coalesce(getStore(c), JStr("unknown")), params>>

\* params?.model ?? "unknown" in getGenerativeModel
geminiModelName(modelParams) == Coalesce(OptGet(modelParams, "model"), JStr("unknown"))

\* Date.now() - start: the milliseconds an adapter measured around the call.
Elapsed == JNum(5)

\* errorType reading the name off the raised value itself.
errorTypeOwnName(err) == Coalesce(OptGet(err, "name"), JStr("Error"))

\* err?.constructor?.name ?? "Error"
errorType(err) == Coalesce(OptGet(OptGet(err, "constructor"), "name"), JStr("Error"))

\* The options of the track call in an adapter's catch block.
failureOptions(cl, err) ==
    JObj([model |-> cl.model,
          inputTokens |-> JNum(0),
          outputTokens |-> JNum(0),
          latencyMs |-> Elapsed,
          featureTag |-> cl.featureTag,
          provider |-> JStr(cl.provider),
          success |-> JBool(FALSE),
          errorType |-> errorType(err)])

\* The success options read with the OpenAI field names for every provider.
successOptionsOpenAIKeys(cl, response) ==
    JObj([model |-> cl.model,
          inputTokens |-> Coalesce(OptGet(Get(response, "usage"), "prompt_tokens"), JNum(0)),
          outputTokens |-> Coalesce(OptGet(Get(response, "usage"), "completion_tokens"), JNum(0)),
          cachedTokens |->
              Coalesce(OptGet(OptGet(Get(response, "usage"), "prompt_tokens_details"),
                              "cached_tokens"), JNum(0)),
          latencyMs |-> Elapsed,
          featureTag |-> cl.featureTag,
          provider |-> JStr(cl.provider)])

\* The options of the track call after a successful non-streaming call.
successOptions(cl, response) ==
    LET usage == IF cl.provider = "gemini"
                 THEN OptGet(Get(response, "response"), "usageMetadata")
                 ELSE Get(response, "usage")
        inKey == CASE cl.provider = "openai" -> "prompt_tokens"
                   [] cl.provider = "anthropic" -> "input_tokens"
                   [] OTHER -> "promptTokenCount"
        outKey == CASE cl.provider = "openai" -> "completion_tokens"
                    [] cl.provider = "anthropic" -> "output_tokens"
                    [] OTHER -> "candidatesTokenCount"
        cached == CASE cl.provider = "openai" ->
                          OptGet(OptGet(usage, "prompt_tokens_details"), "cached_tokens")
                    [] cl.provider = "anthropic" -> OptGet(usage, "cache_read_input_tokens")
                    [] OTHER -> OptGet(usage, "cachedContentTokenCount")
    IN  JObj([model |-> cl.model,
              inputTokens |-> Coalesce(OptGet(usage, inKey), JNum(0)),
              outputTokens |-> Coalesce(OptGet(usage, outKey), JNum(0)),
              cachedTokens |-> Coalesce(cached, JNum(0)),
              latencyMs |-> Elapsed,
              featureTag |-> cl.featureTag,
              provider |-> JStr(cl.provider)])

\* Stream options read from one accumulator shared by every wrapped stream:
\* the counts are those of the stream that was opened by the highest chain.
streamOptionsShared(g) ==
    LET top == Max({c \in Chains : gen[c].state # "none"})
    IN  JObj([model |-> g.model,
              inputTokens |-> gen[top].inputTokens,
              outputTokens |-> gen[top].outputTokens,
              latencyMs |-> Elapsed,
              featureTag |-> g.featureTag,
              provider |-> JStr(g.provider)])

\* A wrapper that leaves the tag to track, which reads the ambient one.
streamOptionsAmbientTag(g) ==
    JObj([model |-> g.model,
          inputTokens |-> g.inputTokens,
          outputTokens |-> g.outputTokens,
          latencyMs |-> Elapsed,
          provider |-> JStr(g.provider)])

\* A wrapper that passes track a runId of its own.
streamOptionsPassRunId(g) ==
    JObj([model |-> g.model,
          inputTokens |-> g.inputTokens,
          outputTokens |-> g.outputTokens,
          latencyMs |-> Elapsed,
          featureTag |-> g.featureTag,
          provider |-> JStr(g.provider),
          runId |-> JStr("run-1")])

\* The options of the track call a stream wrapper makes at exhaustion.
streamOptions(g) ==
    JObj([model |-> g.model,
          inputTokens |-> g.inputTokens,
          outputTokens |-> g.outputTokens,
          latencyMs |-> Elapsed,
          featureTag |-> g.featureTag,
          provider |-> JStr(g.provider)])

\* A wrapped call starts in chain c: the adapter has resolved the tag, built
\* the forwarded parameters and awaits the real client.
StartCall(c, cl) ==
    /\ pc[c] = "idle"
    /\ pc' = [pc EXCEPT ![c] = "awaitClient"]
    /\ call' = [call EXCEPT ![c] = cl @@ [client |-> [kind |-> "pending"]]]
    /\ result' = [result EXCEPT ![c] = NoResult]
    /\ ResetStream(c)
    /\ tel' = [tel EXCEPT ![c] = <<>>]
    /\ UNCHANGED <<cfgVars, scopes, runVars>>

\* openai.chat.completions.create(params), up to the await of the real client.
OpenAICreate(c, params) ==
    StartCall(c, [op |-> "chat.completions.create",
                  provider |-> "openai",
                  params |-> params,
                  caller |-> callerParams(params),
                  forwarded |-> openaiForwarded(params),
                  featureTag |-> resolveFeatureTag(c, params),
                  model |-> Get(params, "model"),
                  streaming |-> Truthy(Get(cleanParams(params), "stream"))])

\* anthropic.messages.create(params), up to the await of the real client.
AnthropicCreate(c, params) ==
    StartCall(c, [op |-> "messages.create",
                  provider |-> "anthropic",
                  params |-> params,
                  caller |-> callerParams(params),
                  forwarded |-> anthropicForwarded(params),
                  featureTag |-> resolveFeatureTag(c, params),
                  model |-> Get(params, "model"),
                  streaming |-> Truthy(Get(cleanParams(params), "stream"))])

\* model.generateContent(params), up to the await of the real model.
GeminiGenerateContent(c, modelParams, params) ==
    StartCall(c, [op |-> "generateContent",
                  provider |-> "gemini",
                  params |-> params,
                  caller |-> callerParams(params),
                  forwarded |-> extractFeatureTag(c, params)[2],
                  featureTag |-> extractFeatureTag(c, params)[1],
                  model |-> geminiModelName(modelParams),
                  streaming |-> FALSE])

\* model.generateContentStream(params), up to the await of the real model.
GeminiGenerateContentStream(c, modelParams, params) ==
    StartCall(c, [op |-> "generateContentStream",
                  provider |-> "gemini",
                  params |-> params,
                  caller |-> callerParams(params),
                  forwarded |-> extractFeatureTag(c, params)[2],
                  featureTag |-> extractFeatureTag(c, params)[1],
                  model |-> geminiModelName(modelParams),
                  streaming |-> TRUE])


\* What the real client may resolve with for call cl.
ClientResults(cl) ==
    CASE cl.op = "chat.completions.create" ->
            IF cl.streaming THEN {RealStream} ELSE OpenAIResponses
      [] cl.op = "messages.create" ->
            IF cl.streaming THEN {RealStream} ELSE AnthropicResponses
      [] cl.op = "generateContent" -> GeminiResults
      [] cl.op = "generateContentStream" -> {GeminiStreamResult}

AllResults ==
    OpenAIResponses \cup AnthropicResponses \cup GeminiResults
    \cup {RealStream, GeminiStreamResult}

\* A Gemini stream result rebuilt from the wrapped stream alone.
streamResultStreamOnly(cl, real) ==
    IF cl.provider = "gemini"
    THEN JObj([stream |-> WrappedStream])
    ELSE WrappedStream

\* What a streaming call returns to its caller: the wrapped generator, or for
\* Gemini { ...result, stream: wrapGeminiStream(...), response: result.response }.
streamResult(cl, real) ==
    IF cl.provider = "gemini"
    THEN With(With(real, "stream", WrappedStream), "response", Get(real, "response"))
    ELSE WrappedStream

\* wrapXStream(stream, model, featureTag, start): a generator not yet started.
newGen(cl) ==
    [state |-> "suspendedStart",
     end |-> [kind |-> "none"],
     provider |-> cl.provider,
     model |-> cl.model,
     featureTag |-> cl.featureTag,
     inputTokens |-> JNum(0),
     outputTokens |-> JNum(0)]

\* A return that happens only once the promise of track has settled.
returnedOnceSent(value, sent) ==
    IF sent = "pending" THEN NoResult ELSE [kind |-> "returned", value |-> value]

\* What the caller of a non-streaming call receives after the adapter has
\* called track: `track({...}).catch(() => {}); return response`. The promise
\* of track (sent) is not awaited.
returned(value, sent) == [kind |-> "returned", value |-> value]

\* The real client resolves: the continuation of the adapter after its await.
ClientResolve(c, response) ==
    /\ pc[c] = "awaitClient"
    /\ response \in ClientResults(call[c])
    /\ call' = [call EXCEPT ![c].client = [kind |-> "resolved", value |-> response]]
    /\ IF call[c].streaming
       THEN /\ gen' = [gen EXCEPT ![c] = newGen(call[c])]
            /\ result' = [result EXCEPT ![c] =
                             [kind |-> "returned", value |-> streamResult(call[c], response)]]
            /\ pc' = [pc EXCEPT ![c] = "streaming"]
            /\ UNCHANGED <<tel, stepCounter, signals>>
       ELSE /\ track(c, successOptions(call[c], response), tel[c])
            /\ result' = [result EXCEPT ![c] = returned(response, Last(tel'[c]).promise)]
            /\ pc' = [pc EXCEPT ![c] = "idle"]
            /\ UNCHANGED gen
    /\ UNCHANGED <<cfgVars, scopes, execution, source, srcState, delivered, extraPulls>>

\* What the caller of a non-streaming call receives when the real client
\* raised err: `throw err` in the catch block.
rethrown(err) == [kind |-> "raised", error |-> err]

\* The real client raises: the catch block of the non-streaming path; the
\* streaming path awaits the client outside any try.
ClientReject(c, err) ==
    /\ pc[c] = "awaitClient"
    /\ call' = [call EXCEPT ![c].client = [kind |-> "rejected", error |-> err]]
    /\ IF call[c].streaming
       THEN UNCHANGED <<tel, stepCounter, signals>>
       ELSE track(c, failureOptions(call[c], err), tel[c])
    /\ result' = [result EXCEPT ![c] = rethrown(err)]
    /\ pc' = [pc EXCEPT ![c] = "idle"]
    /\ UNCHANGED <<cfgVars, scopes, execution, streamVars>>

\* --------------------------------------------------------- stream wrappers
OpenAIChunks ==
    {JObj([id |-> JStr("chunk")] @@ u) :
        u \in {<<>>}
              \cup {[usage |-> x] :
                       x \in {JNull}
                             \cup PartialObjs({"prompt_tokens", "completion_tokens"}, TokenNums)}}

AnthropicEventTypes == {"message_start", "content_block_delta", "message_delta"}

AnthropicEvents ==
    {JObj([type |-> JStr(ty)] @@ m @@ u) :
        ty \in AnthropicEventTypes,
        m \in {<<>>} \cup {[message |-> JObj([usage |-> x])] :
                              x \in PartialObjs({"input_tokens"}, TokenNums)},
        u \in {<<>>} \cup {[usage |-> x] : x \in PartialObjs({"output_tokens"}, TokenNums)}}

GeminiChunks ==
    {JObj([text |-> JStr("t")] @@ u) :
        u \in {<<>>}
              \cup {[usageMetadata |-> x] :
                       x \in PartialObjs({"promptTokenCount", "candidatesTokenCount"}, TokenNums)}}

StreamEvents(provider) ==
    CASE provider = "openai" -> OpenAIChunks
      [] provider = "anthropic" -> AnthropicEvents
      [] provider = "gemini" -> GeminiChunks

AllEvents == OpenAIChunks \cup AnthropicEvents \cup GeminiChunks

\* A few events of each provider, for the specifications that are not about
\* the accumulators.
FewEvents ==
    {JObj([id |-> JStr("chunk")]),
     JObj([id |-> JStr("chunk"),
           usage |-> JObj([prompt_tokens |-> JNum(1), completion_tokens |-> JNum(2)])]),
     JObj([type |-> JStr("message_start"),
           message |-> JObj([usage |-> JObj([input_tokens |-> JNum(1)])])]),
     JObj([type |-> JStr("message_delta"), usage |-> JObj([output_tokens |-> JNum(2)])]),
     JObj([text |-> JStr("t")]),
     JObj([text |-> JStr("t"),
           usageMetadata |-> JObj([promptTokenCount |-> JNum(1),
                                   candidatesTokenCount |-> JNum(2)])])}

\* wrapOpenAIStream with each count kept when the chunk's usage lacks it.
wrapOpenAIStepFieldwise(g, chunk) ==
    IF Truthy(Get(chunk, "usage"))
    THEN [g EXCEPT !.inputTokens = Coalesce(Get(Get(chunk, "usage"), "prompt_tokens"), @),
                   !.outputTokens = Coalesce(Get(Get(chunk, "usage"), "completion_tokens"), @)]
    ELSE g

\* wrapOpenAIStream: the loop body before `yield chunk`.
wrapOpenAIStep(g, chunk) ==
    IF Truthy(Get(chunk, "usage"))
    THEN [g EXCEPT !.inputTokens = Coalesce(Get(Get(chunk, "usage"), "prompt_tokens"), JNum(0)),
                   !.outputTokens = Coalesce(Get(Get(chunk, "usage"), "completion_tokens"), JNum(0))]
    ELSE g

\* wrapAnthropicStream reading usage off events of every type.
wrapAnthropicStepAnyType(g, event) ==
    [g EXCEPT
        !.inputTokens =
            IF Truthy(OptGet(Get(event, "message"), "usage"))
            THEN Coalesce(Get(Get(Get(event, "message"), "usage"), "input_tokens"), JNum(0))
            ELSE @,
        !.outputTokens =
            IF Truthy(Get(event, "usage"))
            THEN Coalesce(Get(Get(event, "usage"), "output_tokens"), JNum(0))
            ELSE @]

\* wrapAnthropicStream: the loop body before `yield event`.
wrapAnthropicStep(g, event) ==
    [g EXCEPT
        !.inputTokens =
            IF Get(event, "type") = JStr("message_start")
               /\ Truthy(OptGet(Get(event, "message"), "usage"))
            THEN Coalesce(Get(Get(Get(event, "message"), "usage"), "input_tokens"), JNum(0))
            ELSE @,
        !.outputTokens =
            IF Get(event, "type") = JStr("message_delta") /\ Truthy(Get(event, "usage"))
            THEN Coalesce(Get(Get(event, "usage"), "output_tokens"), JNum(0))
            ELSE @]

\* The larger of two JS numbers.
JMax(a, b) == IF a.v >= b.v THEN a ELSE b

\* wrapGeminiStream with counts that never decrease.
wrapGeminiStepMonotonic(g, chunk) ==
    IF Truthy(Get(chunk, "usageMetadata"))
    THEN [g EXCEPT
            !.inputTokens =
                JMax(@, Coalesce(Get(Get(chunk, "usageMetadata"), "promptTokenCount"), JNum(0))),
            !.outputTokens =
                JMax(@, Coalesce(Get(Get(chunk, "usageMetadata"), "candidatesTokenCount"),
                                 JNum(0)))]
    ELSE g

\* wrapGeminiStream: the loop body before `yield chunk`.
wrapGeminiStep(g, chunk) ==
    IF Truthy(Get(chunk, "usageMetadata"))
    THEN [g EXCEPT
            !.inputTokens =
                Coalesce(Get(Get(chunk, "usageMetadata"), "promptTokenCount"), JNum(0)),
            !.outputTokens =
                Coalesce(Get(Get(chunk, "usageMetadata"), "candidatesTokenCount"), JNum(0))]
    ELSE g

wrapStep(g, ev) ==
    CASE g.provider = "openai" -> wrapOpenAIStep(g, ev)
      [] g.provider = "anthropic" -> wrapAnthropicStep(g, ev)
      [] g.provider = "gemini" -> wrapGeminiStep(g, ev)

\* A loop body that keeps the events carrying usage to itself.
yieldedContentOnly(ev) ==
    IF Truthy(Get(ev, "usage")) \/ Truthy(Get(ev, "usageMetadata")) THEN <<>> ELSE <<ev>>

\* What the loop body yields to the consumer for event ev: `yield chunk`.
yielded(ev) == <<ev>>

\* The consumer calls next() on the wrapped stream: the generator runs on to
\* its await of the source's next event.
ConsumerNext(c) ==
    /\ gen[c].state \in {"suspendedStart", "suspendedYield"}
    /\ gen' = [gen EXCEPT ![c].state = "awaitSource"]
    /\ UNCHANGED <<cfgVars, scopes, runVars, callVars, source, srcState, delivered,
                   extraPulls, tel>>

\* A wrapper whose completed stream runs its tail again on a further next().
ConsumerNextRerunsTail(c) ==
    /\ gen[c].state = "completed"
    /\ extraPulls[c] < MaxExtraPulls
    /\ extraPulls' = [extraPulls EXCEPT ![c] = @ + 1]
    /\ track(c, streamOptions(gen[c]), tel[c])
    /\ UNCHANGED <<cfgVars, scopes, execution, callVars, gen, source, srcState, delivered>>

\* The consumer calls next() on a wrapped stream that has completed: the
\* generator's body does not run again.
ConsumerNextAfterDone(c) ==
    /\ gen[c].state = "completed"
    /\ extraPulls[c] < MaxExtraPulls
    /\ extraPulls' = [extraPulls EXCEPT ![c] = @ + 1]
    /\ UNCHANGED <<cfgVars, scopes, runVars, callVars, gen, source, srcState, delivered, tel>>

\* A wrapper that reads ahead: it takes the next event from the source while
\* the consumer still holds the previous one, and keeps it.
SourceYieldAhead(c, ev) ==
    /\ gen[c].state \in {"awaitSource", "suspendedYield"}
    /\ Len(source[c]) < MaxLen
    /\ ev \in StreamEvents(gen[c].provider)
    /\ source' = [source EXCEPT ![c] = Append(@, ev)]
    /\ gen' = [gen EXCEPT ![c] = [wrapStep(@, ev) EXCEPT !.state = "suspendedYield"]]
    /\ delivered' = [delivered EXCEPT ![c] =
                        IF gen[c].state = "awaitSource" THEN @ \o yielded(ev) ELSE @]
    /\ UNCHANGED <<cfgVars, scopes, runVars, callVars, srcState, extraPulls, tel>>

\* The source produces an event: the wrapper folds its usage and yields it.
SourceYield(c, ev) ==
    /\ gen[c].state = "awaitSource"
    /\ Len(source[c]) < MaxLen
    /\ ev \in StreamEvents(gen[c].provider)
    /\ source' = [source EXCEPT ![c] = Append(@, ev)]
    /\ gen' = [gen EXCEPT ![c] = [wrapStep(@, ev) EXCEPT !.state = "suspendedYield"]]
    /\ delivered' = [delivered EXCEPT ![c] = @ \o yielded(ev)]
    /\ UNCHANGED <<cfgVars, scopes, runVars, callVars, srcState, extraPulls, tel>>

\* The source is exhausted: the loop ends, the wrapper calls track and returns.
SourceDone(c) ==
    /\ gen[c].state = "awaitSource"
    /\ srcState' = [srcState EXCEPT ![c] = "done"]
    /\ track(c, streamOptions(gen[c]), tel[c])
    /\ gen' = [gen EXCEPT ![c].state = "completed", ![c].end = [kind |-> "exhausted"]]
    /\ pc' = [pc EXCEPT ![c] = "idle"]
    /\ UNCHANGED <<cfgVars, scopes, execution, call, result, source, delivered, extraPulls>>

\* The source raises while being consumed: the error leaves the generator
\* through the for-await loop, before the track call, and reaches the consumer.
SourceThrow(c, err) ==
    /\ gen[c].state = "awaitSource"
    /\ srcState' = [srcState EXCEPT ![c] = "threw"]
    /\ gen' = [gen EXCEPT ![c].state = "completed", ![c].end = [kind |-> "raised", error |-> err]]
    /\ pc' = [pc EXCEPT ![c] = "idle"]
    /\ UNCHANGED <<cfgVars, scopes, runVars, call, result, source, delivered, extraPulls, tel>>

\* A wrapper that calls track in a finally block: also when it is abandoned.
ConsumerReturnFinally(c) ==
    /\ gen[c].state \in {"suspendedStart", "suspendedYield"}
    /\ gen' = [gen EXCEPT ![c].state = "completed", ![c].end = [kind |-> "returned"]]
    /\ track(c, streamOptions(gen[c]), tel[c])
    /\ pc' = [pc EXCEPT ![c] = "idle"]
    /\ UNCHANGED <<cfgVars, scopes, execution, call, result, source, srcState, delivered,
                   extraPulls>>

\* The consumer abandons the wrapped stream (break / return()): the generator
\* completes at its yield, or without having started.
ConsumerReturn(c) ==
    /\ gen[c].state \in {"suspendedStart", "suspendedYield"}
    /\ gen' = [gen EXCEPT ![c].state = "completed", ![c].end = [kind |-> "returned"]]
    /\ pc' = [pc EXCEPT ![c] = "idle"]
    /\ UNCHANGED <<cfgVars, scopes, runVars, call, result, source, srcState, delivered,
                   extraPulls, tel>>

\* ----------------------------------------------------------- specifications
Init ==
    /\ config = DefaultConfig
    /\ inits = <<>>
    /\ scopes = [c \in Chains |-> <<>>]
    /\ stepCounter = [r \in RunIds |-> 0]
    /\ signals = [c \in Chains |-> <<>>]
    /\ execution = [c \in Chains |-> [kind |-> "none"]]
    /\ pc = [c \in Chains |-> "idle"]
    /\ call = [c \in Chains |-> NoCall]
    /\ result = [c \in Chains |-> NoResult]
    /\ gen = [c \in Chains |-> NoGen]
    /\ source = [c \in Chains |-> <<>>]
    /\ srcState = [c \in Chains |-> "open"]
    /\ delivered = [c \in Chains |-> <<>>]
    /\ extraPulls = [c \in Chains |-> 0]
    /\ tel = [c \in Chains |-> <<>>]

\* The tags a chain enters observe with: a plain tag or the empty string.
ObserveTags == {"y", ""}

\* The options of a manual track call.
ManualOptions ==
    {JObj([model |-> JStr("custom-model"), inputTokens |-> JNum(1), outputTokens |-> JNum(2),
           latencyMs |-> JNum(3)]
          @@ f) :
        f \in {<<>>, [featureTag |-> JStr("x")]}}

\* Chain c has made no call yet.
Fresh(c) == call[c].op = "none"

\* One chain making one call, over every adapter and every parameter shape,
\* inside the scopes it entered before the call.
Next ==
    \/ \E m \in GeminiModelParams, p \in GeminiParams :
          Fresh(1) /\ GeminiGenerateContent(1, m, p)
    \/ \E m \in GeminiModelParams, p \in GeminiParams :
          Fresh(1) /\ GeminiGenerateContentStream(1, m, p)
    \/ \E p \in ChatParams : Fresh(1) /\ OpenAICreate(1, p)
    \/ \E p \in ChatParams : Fresh(1) /\ AnthropicCreate(1, p)
    \/ \E o \in ManualOptions : Fresh(1) /\ ManualTrack(1, o)
    \/ \E t \in ObserveTags : Fresh(1) /\ observe(1, t)
    \/ \E r \in AllResults : ClientResolve(1, r)
    \/ \E e \in Errors : ClientReject(1, e)
    \/ ConsumerNext(1)
    \/ ConsumerNextAfterDone(1)
    \/ \E ev \in FewEvents : SourceYield(1, ev)
    \/ SourceDone(1)
    \/ \E e \in Errors : SourceThrow(1, e)
    \/ ConsumerReturn(1)
    \/ \E o \in FetchOutcomes : PostSettle(1, 1, o)

Spec == Init /\ [][Next]_vars

\* ------------------------------------------------------------------ AgentRun
\* new AgentRun(options)
AgentRun(options) ==
    JObj([runId |-> Coalesce(Get(options, "runId"), JStr("uuid")),
          runName |-> Get(options, "runName"),
          featureTag |-> Coalesce(Get(options, "featureTag"), JStr("unknown")),
          endUserId |-> Get(options, "endUserId")])

\* The runs of the model, by id.
Runs ==
    [r \in RunIds |->
        AgentRun(JObj([runId |-> JStr(r), runName |-> JStr("job"), featureTag |-> JStr("agent")]))]

\* An execute that enters runStorage.run only and leaves the feature tag as
\* it was.
executeRunOnly(c, r) ==
    /\ pc[c] = "idle"
    /\ Depth(c) < MaxDepth
    /\ execution[c].kind # "running"
    /\ signals' = [signals EXCEPT ![c] =
                     <<sendRunApi("/api/runs/start",
                                  JObj([project_id |-> Get(config, "projectId"),
                                        run_id |-> Get(Runs[r], "runId"),
                                        run_name |-> Get(Runs[r], "runName"),
                                        feature_tag |-> Get(Runs[r], "featureTag"),
                                        end_user_id |-> Get(Runs[r], "endUserId")]))>>]
    /\ scopes' = [scopes EXCEPT ![c] =
                     @ \o <<[slot |-> "run", store |-> JStr(r), by |-> "execute"],
                            [slot |-> "featureTag", store |-> getStore(c), by |-> "execute"]>>]
    /\ execution' = [execution EXCEPT ![c] = [kind |-> "running", run |-> r]]
    /\ UNCHANGED <<cfgVars, stepCounter, callVars, streamVars, tel>>

\* An execute that runs fn without sending the start signal.
executeWithoutStart(c, r) ==
    /\ pc[c] = "idle"
    /\ Depth(c) < MaxDepth
    /\ execution[c].kind # "running"
    /\ signals' = [signals EXCEPT ![c] = <<>>]
    /\ scopes' = [scopes EXCEPT ![c] =
                     @ \o <<[slot |-> "run", store |-> JStr(r), by |-> "execute"],
                            [slot |-> "featureTag", store |-> Get(Runs[r], "featureTag"),
                             by |-> "execute"]>>]
    /\ execution' = [execution EXCEPT ![c] = [kind |-> "running", run |-> r]]
    /\ UNCHANGED <<cfgVars, stepCounter, callVars, streamVars, tel>>

\* An execute that starts the run's step counter over.
executeResetsCounter(c, r) ==
    /\ pc[c] = "idle"
    /\ Depth(c) < MaxDepth
    /\ execution[c].kind # "running"
    /\ signals' = [signals EXCEPT ![c] =
                     <<sendRunApi("/api/runs/start",
                                  JObj([project_id |-> Get(config, "projectId"),
                                        run_id |-> Get(Runs[r], "runId"),
                                        run_name |-> Get(Runs[r], "runName"),
                                        feature_tag |-> Get(Runs[r], "featureTag"),
                                        end_user_id |-> Get(Runs[r], "endUserId")]))>>]
    /\ scopes' = [scopes EXCEPT ![c] =
                     @ \o <<[slot |-> "run", store |-> JStr(r), by |-> "execute"],
                            [slot |-> "featureTag", store |-> Get(Runs[r], "featureTag"),
                             by |-> "execute"]>>]
    /\ execution' = [execution EXCEPT ![c] = [kind |-> "running", run |-> r]]
    /\ stepCounter' = [stepCounter EXCEPT ![r] = 0]
    /\ UNCHANGED <<cfgVars, callVars, streamVars, tel>>

\* run.execute(fn) up to the start of fn: the start signal is sent, then fn
\* runs inside runStorage.run(run, ...) and featureTagStorage.run(tag, ...).
execute(c, r) ==
    /\ pc[c] = "idle"
    /\ Depth(c) < MaxDepth
    /\ execution[c].kind # "running"
    /\ signals' = [signals EXCEPT ![c] =
                     <<sendRunApi("/api/runs/start",
                                  JObj([project_id |-> Get(config, "projectId"),
                                        run_id |-> Get(Runs[r], "runId"),
                                        run_name |-> Get(Runs[r], "runName"),
                                        feature_tag |-> Get(Runs[r], "featureTag"),
                                        end_user_id |-> Get(Runs[r], "endUserId")]))>>]
    /\ scopes' = [scopes EXCEPT ![c] =
                     @ \o <<[slot |-> "run", store |-> JStr(r), by |-> "execute"],
                            [slot |-> "featureTag", store |-> Get(Runs[r], "featureTag"),
                             by |-> "execute"]>>]
    /\ execution' = [execution EXCEPT ![c] = [kind |-> "running", run |-> r]]
    /\ UNCHANGED <<cfgVars, stepCounter, callVars, streamVars, tel>>

\* What the function given to execute resolves with.
BodyResults == {JUndef, JStr("done")}

\* execute: `return result`, the value its awaited function resolved with.
executeReturn(value) == value

\* A throw of a new error that wraps the one the function raised.
executeThrowWrapped(err) ==
    JObj([message |-> JStr("run failed"), cause |-> err,
          constructor |-> JObj([name |-> JStr("Error")])])

\* execute: `throw err`, the error its awaited function raised.
executeThrow(err) == err

\* The function given to execute resolves: the end signal reports completed
\* and the chain goes on outside the two run() frames.
ExecuteResolve(c, value) ==
    /\ pc[c] = "idle"
    /\ execution[c].kind = "running"
    /\ Last(scopes[c]).by = "execute"
    /\ signals' = [signals EXCEPT ![c] =
                     Append(@, sendRunApi("/api/runs/end",
                                          JObj([project_id |-> Get(config, "projectId"),
                                                run_id |-> Get(Runs[execution[c].run], "runId"),
                                                status |-> JStr("completed")])))]
    /\ scopes' = [scopes EXCEPT ![c] = SubSeq(@, 1, Len(@) - 2)]
    /\ execution' = [execution EXCEPT ![c] =
                        [kind |-> "resolved", run |-> @.run, body |-> value,
                         value |-> executeReturn(value)]]
    /\ UNCHANGED <<cfgVars, stepCounter, callVars, streamVars, tel>>

\* The function given to execute raises err: the end signal reports failed
\* with the error's class name and execute raises err again.
ExecuteReject(c, err) ==
    /\ pc[c] = "idle"
    /\ execution[c].kind = "running"
    /\ Last(scopes[c]).by = "execute"
    /\ signals' = [signals EXCEPT ![c] =
                     Append(@, sendRunApi("/api/runs/end",
                                          JObj([project_id |-> Get(config, "projectId"),
                                                run_id |-> Get(Runs[execution[c].run], "runId"),
                                                status |-> JStr("failed"),
                                                error_type |-> errorType(err)])))]
    /\ scopes' = [scopes EXCEPT ![c] = SubSeq(@, 1, Len(@) - 2)]
    /\ execution' = [execution EXCEPT ![c] =
                        [kind |-> "rejected", run |-> @.run, body |-> err,
                         error |-> executeThrow(err)]]
    /\ UNCHANGED <<cfgVars, stepCounter, callVars, streamVars, tel>>

\* The streaming calls of the stream specification, one per provider.
StreamingChat == JObj([model |-> JStr("gpt-4"), messages |-> JStr("hi"), stream |-> JBool(TRUE)])
GeminiContent == JObj([contents |-> JStr("hi")])
GeminiPro == JObj([model |-> JStr("gemini-pro")])
StreamError == JObj([message |-> JStr("boom"), constructor |-> JObj([name |-> JStr("Error")])])

\* One chain consuming one wrapped stream of each provider, over every
\* source sequence of the provider's events up to MaxLen.
NextStream ==
    \/ Fresh(1) /\ OpenAICreate(1, StreamingChat)
    \/ Fresh(1) /\ AnthropicCreate(1, StreamingChat)
    \/ Fresh(1) /\ GeminiGenerateContentStream(1, GeminiPro, GeminiContent)
    \/ \E r \in AllResults : ClientResolve(1, r)
    \/ ConsumerNext(1)
    \/ ConsumerNextAfterDone(1)
    \/ \E ev \in AllEvents : SourceYield(1, ev)
    \/ SourceDone(1)
    \/ SourceThrow(1, StreamError)
    \/ ConsumerReturn(1)

SpecStream == Init /\ [][NextStream]_vars

\* The tag chain c enters observe with: its own.
ChainTag(c) == "tag-" \o ToString(c)

\* The call of the chains specification: no explicit tag, one response.
PlainChat == JObj([model |-> JStr("gpt-4"), messages |-> JStr("hi")])
PlainResponse ==
    JObj([id |-> JStr("resp"),
          usage |-> JObj([prompt_tokens |-> JNum(1), completion_tokens |-> JNum(2)])])
PlainOptions == JObj([model |-> JStr("custom-model"), inputTokens |-> JNum(1), outputTokens |-> JNum(2),
           latencyMs |-> JNum(3)])

\* A call made by chain c allocates no step beyond MaxSteps.
CanStep(c) == IF Nullish(getRun(c)) THEN TRUE ELSE stepCounter[getRun(c).v] < MaxSteps

\* Concurrent chains under every interleaving. Each enters observe scopes
\* with its own tag and executes a run at most once, leaves scopes again, then
\* makes a wrapped call that suspends at the client and a manual track call
\* from the scopes it is still inside.
NextChains ==
    \E c \in Chains :
        \/ Fresh(c) /\ observe(c, ChainTag(c))
        \/ Fresh(c) /\ exitScope(c)
        \/ \E r \in RunIds : Fresh(c) /\ execution[c].kind = "none" /\ execute(c, r)
        \/ Fresh(c) /\ ExecuteResolve(c, JStr("done"))
        \/ Fresh(c) /\ CanStep(c) /\ OpenAICreate(c, PlainChat)
        \/ call[c].op # "track" /\ CanStep(c) /\ ManualTrack(c, PlainOptions)
        \/ ClientResolve(c, PlainResponse)

SpecChains == Init /\ [][NextChains]_vars

\* The calls the function given to execute makes: none with an explicit tag.
RunChatParams == {PlainChat, StreamingChat}

\* Chain c is inside the function given to execute.
InBody(c) == execution[c].kind = "running"

\* One chain executing one run, from inside an observe scope or not: the
\* function given to execute makes tracked calls one after the other, through
\* every adapter, streaming or not, and by manual track, then resolves or
\* raises.
NextRun ==
    \/ execution[1].kind = "none" /\ observe(1, "outer")
    \/ \E r \in RunIds : execution[1].kind = "none" /\ execute(1, r)
    \/ \E p \in RunChatParams : InBody(1) /\ CanStep(1) /\ OpenAICreate(1, p)
    \/ \E p \in RunChatParams : InBody(1) /\ CanStep(1) /\ AnthropicCreate(1, p)
    \/ InBody(1) /\ CanStep(1) /\ GeminiGenerateContent(1, GeminiPro, GeminiContent)
    \/ InBody(1) /\ CanStep(1) /\ GeminiGenerateContentStream(1, GeminiPro, GeminiContent)
    \/ InBody(1) /\ CanStep(1) /\ ManualTrack(1, PlainOptions)
    \/ \E r \in AllResults : ClientResolve(1, r)
    \/ ClientReject(1, StreamError)
    \/ ConsumerNext(1)
    \/ \E ev \in FewEvents : SourceYield(1, ev)
    \/ SourceDone(1)
    \/ SourceThrow(1, StreamError)
    \/ ConsumerReturn(1)
    \/ \E v \in BodyResults : ExecuteResolve(1, v)
    \/ \E e \in Errors : ExecuteReject(1, e)

SpecRun == Init /\ [][NextRun]_vars

\* The events of the one stream of the configuration specification.
ConfigEvents ==
    {JObj([id |-> JStr("chunk"),
           usage |-> JObj([prompt_tokens |-> JNum(1), completion_tokens |-> JNum(2)])])}

\* Chain c has started nothing yet.
Idle(c) == Fresh(c) /\ execution[c].kind = "none"

\* One chain configuring the library with a sequence of init calls and then
\* using it: a run is executed or not, and one call is made, wrapped
\* (streaming or not) or manual.
NextConfig ==
    \/ \E o \in InitOptions : Idle(1) /\ init(o)
    \/ \E r \in RunIds : Idle(1) /\ execute(1, r)
    \/ \E p \in RunChatParams : Fresh(1) /\ OpenAICreate(1, p)
    \/ Fresh(1) /\ GeminiGenerateContent(1, GeminiPro, GeminiContent)
    \/ Fresh(1) /\ ManualTrack(1, PlainOptions)
    \/ ClientResolve(1, PlainResponse)
    \/ ClientResolve(1, RealStream)
    \/ ClientResolve(1, EmptyObj)
    \/ ClientReject(1, StreamError)
    \/ ConsumerNext(1)
    \/ \E ev \in ConfigEvents : SourceYield(1, ev)
    \/ SourceDone(1)
    \/ ExecuteResolve(1, JStr("done"))
    \/ ExecuteReject(1, StreamError)
    \/ \E o \in FetchOutcomes : PostSettle(1, 1, o)
    \/ \E o \in FetchOutcomes : SignalSettle(1, 1, o)

SpecConfig == Init /\ [][NextConfig]_vars

\* The tags of the nested observe scopes of the scopes specification.
ScopeTags == {"a", "b"}

\* One chain entering and leaving observe scopes and runs nested in each
\* other in every order, reading the ambient values by manual track calls.
NextScopes ==
    \/ \E t \in ScopeTags : observe(1, t)
    \/ exitScope(1)
    \/ \E r \in RunIds : execute(1, r)
    \/ ExecuteResolve(1, JStr("done"))
    \/ ExecuteReject(1, StreamError)
    \/ CanStep(1) /\ ManualTrack(1, PlainOptions)

SpecScopes == Init /\ [][NextScopes]_vars

\* ------------------------------------------------------- sends that settle
\* One chain, with the library enabled or disabled, executes a run or not and
\* makes one call; every send it made settles with any outcome. The collector
\* may never answer: only the timer of AbortSignal.timeout(2000) is sure to
\* fire while a fetch is pending.
NextSettle ==
    \/ \E o \in InitOptions : Idle(1) /\ Get(o, "enabled") = JBool(FALSE) /\ init(o)
    \/ \E r \in RunIds : Idle(1) /\ execute(1, r)
    \/ Fresh(1) /\ OpenAICreate(1, PlainChat)
    \/ Fresh(1) /\ ManualTrack(1, PlainOptions)
    \/ ClientResolve(1, PlainResponse)
    \/ ClientReject(1, StreamError)
    \/ ExecuteResolve(1, JStr("done"))
    \/ \E i \in DOMAIN tel[1], o \in FetchOutcomes : PostSettle(1, i, o)
    \/ \E i \in DOMAIN signals[1], o \in FetchOutcomes : SignalSettle(1, i, o)

SpecSettle ==
    /\ Init
    /\ [][NextSettle]_vars
    /\ WF_vars(\E i \in DOMAIN tel[1] : PostSettle(1, i, "timeout"))
    /\ WF_vars(\E i \in DOMAIN signals[1] : SignalSettle(1, i, "timeout"))

\* ------------------------------------------- streams carried across scopes
\* The caller holds the wrapped stream it was returned and goes on with other
\* code before it pulls from the stream again.
ConsumerPause(c) ==
    /\ pc[c] = "streaming"
    /\ gen[c].state \in {"suspendedStart", "suspendedYield"}
    /\ pc' = [pc EXCEPT ![c] = "idle"]
    /\ UNCHANGED <<cfgVars, scopes, runVars, call, result, streamVars, tel>>

\* The stream of chain c is not inside a pull: each next() is awaited.
Quiet(c) == gen[c].state \in {"none", "suspendedStart", "suspendedYield"}

\* The parameters of the streaming calls: with and without a tag of their own.
CarriedChat == {StreamingChat, With(StreamingChat, "feature_tag", JStr("x"))}
CarriedContent == {GeminiContent, With(GeminiContent, "feature_tag", JStr("x"))}

\* One chain makes one streaming call through any adapter and consumes the
\* stream; before the call, between the call and the consumption, and between
\* two pulls it enters and leaves observe scopes and a run in any order.
NextCarried ==
    \/ \E t \in ScopeTags : Quiet(1) /\ observe(1, t)
    \/ Quiet(1) /\ exitScope(1)
    \/ \E r \in RunIds : Quiet(1) /\ execution[1].kind = "none" /\ execute(1, r)
    \/ Quiet(1) /\ ExecuteResolve(1, JStr("done"))
    \/ \E p \in CarriedChat : Fresh(1) /\ OpenAICreate(1, p)
    \/ \E p \in CarriedChat : Fresh(1) /\ AnthropicCreate(1, p)
    \/ \E p \in CarriedContent : Fresh(1) /\ GeminiGenerateContentStream(1, GeminiPro, p)
    \/ \E r \in {RealStream, GeminiStreamResult} : ClientResolve(1, r)
    \/ ConsumerPause(1)
    \/ ConsumerNext(1)
    \/ \E ev \in ConfigEvents : SourceYield(1, ev)
    \/ SourceDone(1)

SpecCarried == Init /\ [][NextCarried]_vars

\* --------------------------------------------------- streams side by side
\* The streaming call of chain c in the interleaving specification: its own
\* model and tag, through the OpenAI adapter on odd chains and through the
\* Gemini adapter on even ones.
OwnParams(c) ==
    IF c % 2 = 1
    THEN JObj([model |-> JStr("model-" \o ToString(c)), messages |-> JStr("hi"),
               stream |-> JBool(TRUE), feature_tag |-> JStr(ChainTag(c))])
    ELSE JObj([contents |-> JStr("hi"), feature_tag |-> JStr(ChainTag(c))])

\* The events of the source stream of chain c: one without usage and one
\* with counts of its own.
OwnEvents(c) ==
    IF c % 2 = 1
    THEN {JObj([id |-> JStr("chunk")]),
          JObj([id |-> JStr("chunk"),
                usage |-> JObj([prompt_tokens |-> JNum(2), completion_tokens |-> JNum(1)])])}
    ELSE {JObj([text |-> JStr("t")]),
          JObj([text |-> JStr("t"),
                usageMetadata |-> JObj([promptTokenCount |-> JNum(1),
                                        candidatesTokenCount |-> JNum(2)])])}

\* Every chain opens one stream and consumes it to exhaustion, the events of
\* the streams interleaved in every order.
NextInterleaved ==
    \E c \in Chains :
        \/ Fresh(c) /\ c % 2 = 1 /\ OpenAICreate(c, OwnParams(c))
        \/ Fresh(c) /\ c % 2 = 0 /\ GeminiGenerateContentStream(c, GeminiPro, OwnParams(c))
        \/ \E r \in {RealStream, GeminiStreamResult} : ClientResolve(c, r)
        \/ ConsumerNext(c)
        \/ \E ev \in OwnEvents(c) : SourceYield(c, ev)
        \/ SourceDone(c)

SpecInterleaved == Init /\ [][NextInterleaved]_vars

\* -------------------------------------------------- calls in flight together
\* Chain p, inside the function given to execute, starts an asynchronous call
\* chain c without awaiting it: c runs with the stores p had when it started
\* c, whatever p does afterwards.
Fork(p, c) ==
    /\ c # p
    /\ InBody(p)
    /\ pc[p] = "idle"
    /\ scopes[c] = <<>>
    /\ Fresh(c)
    /\ execution[c].kind = "none"
    /\ scopes' = [scopes EXCEPT ![c] = scopes[p]]
    /\ UNCHANGED <<cfgVars, runVars, callVars, streamVars, tel>>

\* Chain c may dispatch a call inside the run: chain 1, the body itself, one
\* call after the other while the body runs; a chain the body started, once,
\* after every lower-numbered chain has dispatched.
Dispatchable(c) ==
    /\ ~Nullish(getRun(c))
    /\ CanStep(c)
    /\ IF c = 1 THEN InBody(1) ELSE Fresh(c) /\ \A d \in 1..(c - 1) : ~Fresh(d)

\* One run executed once or several times by chain 1, whose body dispatches
\* calls itself and through chains it starts without awaiting them: the calls
\* are in flight together, complete in any order, and may complete after the
\* body has returned.
NextConcurrent ==
    \/ \E r \in RunIds : execution[1].kind # "running" /\ execute(1, r)
    \/ \E c \in Chains : Fork(1, c)
    \/ \E c \in Chains : Dispatchable(c) /\ OpenAICreate(c, PlainChat)
    \/ \E c \in Chains : ClientResolve(c, PlainResponse)
    \/ \E c \in Chains : ClientReject(c, StreamError)
    \/ ExecuteResolve(1, JStr("done"))

SpecConcurrent == Init /\ [][NextConcurrent]_vars

\* ------------------------------------------------- property pass-through
\* Objects with identity are references into a heap; a function value has a
\* name and, once bound, the receiver it was bound to.
Ref(id) == [t |-> "ref", id |-> id]
Fn(name) == [t |-> "function", name |-> name, bound |-> JUndef]
TypeError == [t |-> "TypeError"]

\* value.bind(target)
Bind(value, target) == [value EXCEPT !.bound = target]

\* The adapters: the openai and anthropic proxies, the gemini proxy and the
\* tracked model that gemini.getGenerativeModel returns.
Adapters == {"openai", "anthropic", "gemini", "geminiModel"}

\* The real object an adapter stands for: the provider client, or the model
\* the real getGenerativeModel returned.
Target(a) == IF a = "geminiModel" THEN Ref("model") ELSE Ref("client")

\* The Proxy object the caller holds.
ProxyOf(a) == Ref("proxy")

\* The real provider objects behind each adapter, by identity.
Heap(a) ==
    CASE a = "openai" ->
           ("client" :> [apiKey |-> JStr("sk"),
                         chat |-> Ref("client.chat"),
                         models |-> Ref("client.models"),
                         post |-> Fn("post")])
           @@ ("client.chat" :> [completions |-> Ref("client.chat.completions")])
           @@ ("client.chat.completions" :> [create |-> Fn("create"), list |-> Fn("list")])
           @@ ("client.models" :> [list |-> Fn("list")])
      [] a = "anthropic" ->
           ("client" :> [apiKey |-> JStr("sk"),
                         messages |-> Ref("client.messages"),
                         models |-> Ref("client.models"),
                         post |-> Fn("post")])
           @@ ("client.messages" :> [create |-> Fn("create"),
                                     countTokens |-> Fn("countTokens")])
           @@ ("client.models" :> [list |-> Fn("list")])
      [] OTHER ->
           ("client" :> [apiKey |-> JStr("sk"),
                         getGenerativeModel |-> Fn("getGenerativeModel"),
                         getGenerativeModelFromCachedContent |->
                             Fn("getGenerativeModelFromCachedContent")])
           @@ ("model" :> [model |-> JStr("gemini-pro"),
                           generateContent |-> Fn("generateContent"),
                           generateContentStream |-> Fn("generateContentStream"),
                           countTokens |-> Fn("countTokens"),
                           startChat |-> Fn("startChat")])

\* The function an adapter puts in place of the tracked operation.
TrackedFn(name) == Fn("tracked " \o name)

\* value[prop] in plain JavaScript: a property of a heap object or of an
\* object literal, undefined where there is none, a TypeError on undefined.
ReadProp(a, value, prop) ==
    CASE value.t = "ref" ->
           IF value.id \in DOMAIN Heap(a) /\ prop \in DOMAIN Heap(a)[value.id]
           THEN Heap(a)[value.id][prop]
           ELSE JUndef
      [] value.t = "object" -> Get(value, prop)
      [] value.t \in {"undefined", "null", "TypeError"} -> TypeError
      [] OTHER -> JUndef

\* The get trap of createOpenAIProxy.
openaiGet(prop) ==
    IF prop = "chat"
    THEN JObj([completions |-> JObj([create |-> TrackedFn("create")])])
    ELSE ReadProp("openai", Target("openai"), prop)

\* The get trap of createAnthropicProxy.
anthropicGet(prop) ==
    IF prop = "messages"
    THEN JObj([create |-> TrackedFn("create")])
    ELSE ReadProp("anthropic", Target("anthropic"), prop)

\* The get trap of the gemini proxy.
geminiGet(prop) ==
    IF prop = "getGenerativeModel"
    THEN TrackedFn("getGenerativeModel")
    ELSE LET value == ReadProp("gemini", Target("gemini"), prop)
         IN  IF value.t = "function" THEN Bind(value, Target("gemini")) ELSE value

\* The get trap of createTrackedModel.
trackedModelGet(prop) ==
    IF prop \in {"generateContent", "generateContentStream"}
    THEN TrackedFn(prop)
    ELSE LET value == ReadProp("geminiModel", Target("geminiModel"), prop)
         IN  IF value.t = "function" THEN Bind(value, Target("geminiModel")) ELSE value

\* adapter[prop]
adapterGet(a, prop) ==
    CASE a = "openai" -> openaiGet(prop)
      [] a = "anthropic" -> anthropicGet(prop)
      [] a = "gemini" -> geminiGet(prop)
      [] OTHER -> trackedModelGet(prop)

Front(path) == SubSeq(path, 1, Len(path) - 1)

\* adapter.p1.p2...pn
RECURSIVE adapterRead(_, _)
adapterRead(a, path) ==
    IF Len(path) = 1
    THEN adapterGet(a, path[1])
    ELSE ReadProp(a, adapterRead(a, Front(path)), Last(path))

\* The receiver adapter.p1...pn(...) runs with: the one a bound function was
\* bound to, else the object the method was read from.
adapterReceiver(a, path) ==
    LET value == adapterRead(a, path)
    IN  CASE value.t # "function" -> JUndef
          [] value.bound # JUndef -> value.bound
          [] Len(path) = 1 -> ProxyOf(a)
          [] OTHER -> adapterRead(a, Front(path))

\* The property names read through adapter a: those of its real objects and
\* one no object has.
Names(a) ==
    UNION {DOMAIN Heap(a)[id] : id \in DOMAIN Heap(a)} \cup {"missing"}

\* The property paths read through adapter a.
Paths(a) ==
    {<<x>> : x \in Names(a)}
    \cup {<<x, y>> : x \in Names(a), y \in Names(a)}
    \cup {<<x, y, z>> : x \in Names(a), y \in Names(a), z \in Names(a)}

\* Chain c reads adapter.p1...pn.
PropertyGet(c, a, path) ==
    /\ pc[c] = "idle"
    /\ call' = [call EXCEPT ![c] = [op |-> "get", adapter |-> a, path |-> path]]
    /\ result' = [result EXCEPT ![c] =
                     [kind |-> "value",
                      value |-> adapterRead(a, path),
                      receiver |-> adapterReceiver(a, path)]]
    /\ UNCHANGED <<cfgVars, scopes, runVars, pc, streamVars, tel>>

\* One chain reading one property path through one of the adapters.
NextProxy ==
    \E a \in Adapters : \E path \in Paths(a) : Fresh(1) /\ PropertyGet(1, a, path)

SpecProxy == Init /\ [][NextProxy]_vars

\* The options of the manual track calls of the track specification: the
\* required fields alone, with each optional field, with a null or undefined
\* optional field, with an explicit run id (of no run, or of the run of the
\* model) with and without a step index, and with every field.
TrackOptions ==
    {JObj([model |-> JStr("custom-model"), inputTokens |-> JNum(1), outputTokens |-> JNum(2),
           latencyMs |-> JNum(3)] @@ f) :
        f \in {<<>>,
               [provider |-> JStr("openai")],
               [cachedTokens |-> JNum(4)],
               [success |-> JBool(FALSE)],
               [environment |-> JStr("test")],
               [featureTag |-> JStr("x")],
               [errorType |-> JStr("TimeoutError")],
               [errorType |-> JNull],
               [endUserId |-> JStr("user-1")],
               [endUserId |-> JUndef],
               [runId |-> JStr("run-x")],
               [runId |-> JNull],
               [stepIndex |-> JNum(7)],
               [runId |-> JStr("run-x"), stepIndex |-> JNum(7)],
               [runId |-> JStr("run-1"), stepIndex |-> JNum(7)],
               [runId |-> JStr("run-1")],
               [provider |-> JStr("openai"), cachedTokens |-> JNum(4), success |-> JBool(FALSE),
                environment |-> JStr("test"), featureTag |-> JStr("x"),
                errorType |-> JStr("TimeoutError"), endUserId |-> JStr("user-1"),
                runId |-> JStr("run-x"), stepIndex |-> JNum(7)]}}

\* The options of the track calls made inside a run: those that differ in
\* the run id and the step index only.
RunTrackOptions ==
    {o \in TrackOptions :
        DOMAIN o.v \subseteq {"model", "inputTokens", "outputTokens", "latencyMs", "runId",
                              "stepIndex"}}

\* The init options of the track specification: another environment, the
\* library disabled, or another key alone.
TrackInits ==
    {o \in InitOptions :
        \/ Get(o, "environment") = JStr("staging")
        \/ Get(o, "enabled") = JBool(FALSE)
        \/ ~Has(o, "projectId")}

\* One chain configuring the library and then making manual track calls with
\* every shape of options, outside any run, inside observe scopes and inside
\* the function given to execute.
NextTrack ==
    \/ \E o \in TrackInits : Idle(1) /\ init(o)
    \/ \E t \in ObserveTags : Fresh(1) /\ observe(1, t)
    \/ \E r \in RunIds : execution[1].kind = "none" /\ execute(1, r)
    \/ \E o \in TrackOptions : ~InBody(1) /\ ManualTrack(1, o)
    \/ \E o \in RunTrackOptions : InBody(1) /\ CanStep(1) /\ ManualTrack(1, o)
    \/ ExecuteResolve(1, JStr("done"))

SpecTrack == Init /\ [][NextTrack]_vars

\* ------------------------------------------------------------------- claims
\* The chains that have made a wrapped call.
Wrapped(c) == call[c].op \notin {"none", "track"}

\* The caller-supplied fields other than feature_tag.
OtherFields(params) == (DOMAIN Props(params)) \ {"feature_tag"}

\* C1: for every adapter (OpenAI, Anthropic, Gemini), in both streaming and
\* non-streaming mode, whatever value the caller gave feature_tag, the
\* parameter object forwarded to the real client has no feature_tag field,
\* and every other caller-supplied field is forwarded with its original value.
C1_FeatureTagStripped ==
    \A c \in Chains :
        Wrapped(c) =>
            /\ ~Has(call[c].forwarded, "feature_tag")
            /\ \A k \in OtherFields(call[c].params) :
                  /\ Has(call[c].forwarded, k)
                  /\ Get(call[c].forwarded, k) = Get(call[c].params, k)
            /\ call[c].params.t # "object" => call[c].forwarded = call[c].params

\* The explicit feature_tag parameter of a wrapped call, undefined when the
\* caller passed none.
ExplicitTag(params) ==
    IF params.t = "object" /\ "feature_tag" \in DOMAIN params.v
    THEN params.v["feature_tag"]
    ELSE JUndef

\* The tag the resolution order gives a wrapped call of chain c.
ExpectedTag(c) ==
    IF ExplicitTag(call[c].params).t \notin {"undefined", "null"}
    THEN ExplicitTag(call[c].params)
    ELSE IF Depth(c) > 0
         THEN Last(scopes[c]).store
         ELSE JStr("unknown")

\* C2: the feature_tag of the telemetry payload of a wrapped call is the
\* explicit feature_tag parameter if one was passed, else the ambient tag set
\* by observe if the call runs inside one, else the string "unknown"; an
\* explicit parameter always wins over the ambient tag.
C2_TagResolutionOrder ==
    \A c \in Chains :
        Wrapped(c) =>
            \A i \in DOMAIN tel[c] :
                tel[c][i].payload.v["feature_tag"] = ExpectedTag(c)

\* The store of the innermost frame of a slot among frames, undefined when
\* the frames hold none.
Innermost(frames, slot) ==
    IF \E i \in DOMAIN frames : frames[i].slot = slot
    THEN frames[CHOOSE i \in DOMAIN frames :
                    /\ frames[i].slot = slot
                    /\ \A j \in DOMAIN frames : j > i => frames[j].slot # slot].store
    ELSE JUndef

\* C3: for any interleaving of two or more concurrent call chains, each
\* started through observe with its own tag and each suspending at I/O waits,
\* every telemetry payload carries the tag of the chain that made the call: no
\* chain ever observes the tag (or active run) set by a sibling or unrelated
\* concurrent chain.
C3_ChainIsolation ==
    \A c \in Chains :
        \A i \in DOMAIN tel[c] :
            LET p == tel[c][i].payload.v
                ownTag == Innermost(tel[c][i].frames, "featureTag")
                ownRun == Innermost(tel[c][i].frames, "run")
            IN  /\ p["feature_tag"] = IF ownTag.t = "undefined" THEN JStr("unknown") ELSE ownTag
                /\ ownRun.t = "undefined" => "run_id" \notin DOMAIN p
                /\ ownRun.t # "undefined" => "run_id" \in DOMAIN p /\ p["run_id"] = ownRun

\* Chain 1 has reported a call under its own tag and outside every run while
\* chain 2, inside a run, is suspended at the client.
C3_Witness ==
    /\ Depth(1) > 0
    /\ tel[1] # <<>>
    /\ tel[1][1].payload.v["feature_tag"] = JStr(ChainTag(1))
    /\ "run_id" \notin DOMAIN tel[1][1].payload.v
    /\ execution[2].kind = "running"
    /\ pc[2] = "awaitClient"
    /\ call[2].featureTag \in {JStr(ChainTag(2)), JStr("agent")}

\* C4: for every outcome of the telemetry POST (it resolves, it rejects, it
\* times out) sendTelemetry and track resolve without raising, and a wrapped
\* call whose real client succeeded returns the real client's result.
C4_TelemetryNeverRaises ==
    \A c \in Chains :
        /\ \A i \in DOMAIN tel[c] :
              /\ tel[c][i].promise \in {"pending", "resolved"}
              /\ tel[c][i].fetch \in FetchOutcomes => tel[c][i].promise = "resolved"
        /\ (Wrapped(c) /\ call[c].client.kind = "resolved" /\ ~call[c].streaming) =>
              result[c] = [kind |-> "returned", value |-> call[c].client.value]
        /\ (Wrapped(c) /\ call[c].client.kind = "resolved" /\ call[c].streaming) =>
              /\ result[c].kind = "returned"
              /\ result[c].value \in {WrappedStream, With(call[c].client.value, "stream", WrappedStream)}

\* A non-streaming call has returned the client's response and the POST of its
\* telemetry has failed (network error or timeout).
C4_Witness ==
    /\ Wrapped(1)
    /\ ~call[1].streaming
    /\ result[1].kind = "returned"
    /\ Len(tel[1]) = 1
    /\ tel[1][1].fetch \in {"networkError", "timeout"}
    /\ tel[1][1].promise = "resolved"

\* The class name of a raised value: the name of its constructor (the empty
\* string for an anonymous class), "Error" when it has no constructor or the
\* constructor has no name.
ClassName(err) ==
    IF err.t = "object" /\ "constructor" \in DOMAIN err.v
    THEN IF "name" \in DOMAIN err.v["constructor"].v
         THEN err.v["constructor"].v["name"]
         ELSE JStr("Error")
    ELSE JStr("Error")

\* C5: when the real client raises on a non-streaming call, exactly one track
\* call is made, with inputTokens 0, outputTokens 0, success false and
\* error_type the raised error's class name ("Error" when it has none), and
\* the caller receives the same error object the client raised.
C5_FailureTrackedAndRethrown ==
    \A c \in Chains :
        (Wrapped(c) /\ ~call[c].streaming /\ call[c].client.kind = "rejected") =>
            /\ Len(tel[c]) = 1
            /\ Get(tel[c][1].options, "inputTokens") = JNum(0)
            /\ Get(tel[c][1].options, "outputTokens") = JNum(0)
            /\ Get(tel[c][1].options, "success") = JBool(FALSE)
            /\ Get(tel[c][1].options, "errorType") = ClassName(call[c].client.error)
            /\ tel[c][1].payload.v["input_tokens"] = JNum(0)
            /\ tel[c][1].payload.v["output_tokens"] = JNum(0)
            /\ tel[c][1].payload.v["success"] = JBool(FALSE)
            /\ tel[c][1].payload.v["error_type"] = ClassName(call[c].client.error)
            /\ result[c] = [kind |-> "raised", error |-> call[c].client.error]

\* A non-streaming call whose client raised an error of a named class.
C5_Witness ==
    /\ Wrapped(1)
    /\ ~call[1].streaming
    /\ call[1].client.kind = "rejected"
    /\ ClassName(call[1].client.error) = JStr("APIError")
    /\ result[1].kind = "raised"
    /\ Len(tel[1]) = 1

\* The chains that hold a wrapped stream of the given provider.
Streams(provider) == {c \in Chains : gen[c].state # "none" /\ gen[c].provider = provider}

\* The wrapped stream of chain c was driven until its source was exhausted.
Exhausted(c) == gen[c].state = "completed" /\ gen[c].end.kind = "exhausted"

\* C6: for every provider stream wrapper and every finite source stream, the
\* sequence of events delivered to the consumer of the wrapped stream is
\* exactly the source sequence: same events, same order, same count, none
\* dropped, duplicated or inserted.
C6_StreamPassThrough ==
    \A c \in Chains :
        gen[c].state # "none" =>
            /\ Len(delivered[c]) = Len(source[c])
            /\ \A i \in DOMAIN source[c] : delivered[c][i] = source[c][i]

\* An exhausted stream of two different events, the first carrying usage.
C6_Witness ==
    /\ gen[1].state # "none"
    /\ Exhausted(1)
    /\ Len(source[1]) >= 2
    /\ source[1][1] # source[1][2]
    /\ Truthy(Get(source[1][1], "usage"))
    /\ delivered[1] = source[1]

\* C7: for every wrapped stream that the consumer drives until the source is
\* exhausted, exactly one track call fires for that stream, and it fires after
\* the last source event has been delivered to the consumer; no state of the
\* execution contains two telemetry events for the same stream, including when
\* the consumer keeps calling next() after exhaustion.
C7_OneTrackPerStream ==
    \A c \in Chains :
        gen[c].state # "none" =>
            /\ Len(tel[c]) <= 1
            /\ Exhausted(c) => Len(tel[c]) = 1
            /\ tel[c] # <<>> =>
                  /\ Exhausted(c)
                  /\ srcState[c] = "done"
                  /\ Len(delivered[c]) = Len(source[c])

\* An exhausted stream on which the consumer has called next() again.
C7_Witness ==
    /\ gen[1].state # "none"
    /\ Exhausted(1)
    /\ Len(source[1]) >= 1
    /\ extraPulls[1] >= 1
    /\ Len(tel[1]) = 1

\* The index of the last element of seq that satisfies P, 0 when none does.
LastWhere(seq, P(_)) ==
    LET I == {i \in DOMAIN seq : P(seq[i])}
    IN  IF I = {} THEN 0 ELSE Max(I)

\* A count read off a usage object: 0 when the object lacks the field.
CountOf(usage, key) == IF key \in DOMAIN usage.v THEN usage.v[key] ELSE JNum(0)

\* The event has an object under key.
Carries(ev, key) == key \in DOMAIN ev.v /\ ev.v[key].t = "object"

OpenAIPopulated(chunk) == Carries(chunk, "usage")

\* The counts the last populated chunk of src gives, 0 and 0 when none is.
OpenAIExpected(src) ==
    LET n == LastWhere(src, OpenAIPopulated)
    IN  IF n = 0
        THEN <<JNum(0), JNum(0)>>
        ELSE <<CountOf(src[n].v["usage"], "prompt_tokens"),
               CountOf(src[n].v["usage"], "completion_tokens")>>

\* C8: OpenAI stream accumulator: for every sequence of chunks, the telemetry
\* emitted at exhaustion has input_tokens = usage.prompt_tokens and
\* output_tokens = usage.completion_tokens of the last chunk whose usage field
\* is populated (an absent count reading 0), both taken from that same chunk;
\* chunks with usage null or absent leave the accumulated counts unchanged.
C8_OpenAIAccumulator ==
    \A c \in Streams("openai") :
        /\ <<gen[c].inputTokens, gen[c].outputTokens>> = OpenAIExpected(source[c])
        /\ Exhausted(c) =>
              /\ Len(tel[c]) = 1
              /\ <<tel[c][1].payload.v["input_tokens"], tel[c][1].payload.v["output_tokens"]>>
                    = OpenAIExpected(source[c])

\* An exhausted OpenAI stream whose populated chunk is followed by a chunk
\* with null usage.
C8_Witness ==
    /\ 1 \in Streams("openai")
    /\ Exhausted(1)
    /\ Len(source[1]) = 2
    /\ OpenAIPopulated(source[1][1])
    /\ Get(source[1][2], "usage") = JNull
    /\ tel[1][1].payload.v["input_tokens"] = JNum(1)
    /\ tel[1][1].payload.v["output_tokens"] = JNum(2)

AnthropicStartWithUsage(event) ==
    /\ Get(event, "type") = JStr("message_start")
    /\ Carries(event, "message")
    /\ Carries(event.v["message"], "usage")

AnthropicDeltaWithUsage(event) ==
    /\ Get(event, "type") = JStr("message_delta")
    /\ Carries(event, "usage")

\* The counts src gives: the input of its last message_start carrying usage,
\* the output of its last message_delta carrying usage, each 0 when none does.
AnthropicExpected(src) ==
    LET i == LastWhere(src, AnthropicStartWithUsage)
        o == LastWhere(src, AnthropicDeltaWithUsage)
    IN  <<IF i = 0 THEN JNum(0) ELSE CountOf(src[i].v["message"].v["usage"], "input_tokens"),
          IF o = 0 THEN JNum(0) ELSE CountOf(src[o].v["usage"], "output_tokens")>>

\* C9: Anthropic stream accumulator: for every sequence of typed events, the
\* telemetry emitted at exhaustion has input_tokens = message.usage.input_tokens
\* of the last message_start event carrying usage and output_tokens =
\* usage.output_tokens of the last message_delta event carrying usage (an
\* absent count reading 0); the two fields are updated independently and
\* events of every other type change neither count.
C9_AnthropicAccumulator ==
    \A c \in Streams("anthropic") :
        /\ <<gen[c].inputTokens, gen[c].outputTokens>> = AnthropicExpected(source[c])
        /\ Exhausted(c) =>
              /\ Len(tel[c]) = 1
              /\ <<tel[c][1].payload.v["input_tokens"], tel[c][1].payload.v["output_tokens"]>>
                    = AnthropicExpected(source[c])

\* An exhausted Anthropic stream of a message_delta carrying usage followed
\* by an event of another type that carries usage too.
C9_Witness ==
    /\ 1 \in Streams("anthropic")
    /\ Exhausted(1)
    /\ Len(source[1]) = 2
    /\ AnthropicDeltaWithUsage(source[1][1])
    /\ Get(source[1][2], "type") = JStr("content_block_delta")
    /\ Carries(source[1][2], "usage")
    /\ Get(source[1][2], "usage") # Get(source[1][1], "usage")
    /\ tel[1][1].payload.v["output_tokens"] = JNum(2)
    /\ tel[1][1].payload.v["input_tokens"] = JNum(0)

GeminiCarriesUsage(chunk) == Carries(chunk, "usageMetadata")

\* The counts the latest chunk of src carrying usageMetadata gives.
GeminiExpected(src) ==
    LET n == LastWhere(src, GeminiCarriesUsage)
    IN  IF n = 0
        THEN <<JNum(0), JNum(0)>>
        ELSE <<CountOf(src[n].v["usageMetadata"], "promptTokenCount"),
               CountOf(src[n].v["usageMetadata"], "candidatesTokenCount")>>

\* C10: Gemini stream accumulator: for every sequence of chunks, the telemetry
\* emitted at exhaustion has input_tokens = usageMetadata.promptTokenCount and
\* output_tokens = usageMetadata.candidatesTokenCount of the latest chunk that
\* carries usageMetadata (an absent count reading 0); later chunks overwrite
\* earlier ones and no monotonic growth is enforced.
C10_GeminiAccumulator ==
    \A c \in Streams("gemini") :
        /\ <<gen[c].inputTokens, gen[c].outputTokens>> = GeminiExpected(source[c])
        /\ Exhausted(c) =>
              /\ Len(tel[c]) = 1
              /\ <<tel[c][1].payload.v["input_tokens"], tel[c][1].payload.v["output_tokens"]>>
                    = GeminiExpected(source[c])

\* An exhausted Gemini stream whose second chunk reports smaller counts than
\* its first.
C10_Witness ==
    /\ 1 \in Streams("gemini")
    /\ Exhausted(1)
    /\ Len(source[1]) = 2
    /\ GeminiExpected(<<source[1][1]>>) = <<JNum(2), JNum(2)>>
    /\ GeminiExpected(<<source[1][2]>>) = <<JNum(1), JNum(1)>>
    /\ tel[1][1].payload.v["input_tokens"] = JNum(1)
    /\ tel[1][1].payload.v["output_tokens"] = JNum(1)

\* The usage object in which an event of the provider reports the input
\* count, undefined when the event reports none.
InputUsage(provider, ev) ==
    CASE provider = "openai" -> Get(ev, "usage")
      [] provider = "gemini" -> Get(ev, "usageMetadata")
      [] OTHER -> IF Get(ev, "type") = JStr("message_start")
                  THEN OptGet(Get(ev, "message"), "usage")
                  ELSE JUndef

\* The usage object in which an event of the provider reports the output count.
OutputUsage(provider, ev) ==
    CASE provider = "openai" -> Get(ev, "usage")
      [] provider = "gemini" -> Get(ev, "usageMetadata")
      [] OTHER -> IF Get(ev, "type") = JStr("message_delta") THEN Get(ev, "usage") ELSE JUndef

InputKey(provider) ==
    CASE provider = "openai" -> "prompt_tokens"
      [] provider = "gemini" -> "promptTokenCount"
      [] OTHER -> "input_tokens"

OutputKey(provider) ==
    CASE provider = "openai" -> "completion_tokens"
      [] provider = "gemini" -> "candidatesTokenCount"
      [] OTHER -> "output_tokens"

\* The input count src reported most recently, 0 when it reported none.
LastInput(provider, src) ==
    LET I == {i \in DOMAIN src : Has(InputUsage(provider, src[i]), InputKey(provider))}
    IN  IF I = {} THEN JNum(0) ELSE InputUsage(provider, src[Max(I)]).v[InputKey(provider)]

\* The output count src reported most recently, 0 when it reported none.
LastOutput(provider, src) ==
    LET I == {i \in DOMAIN src : Has(OutputUsage(provider, src[i]), OutputKey(provider))}
    IN  IF I = {} THEN JNum(0) ELSE OutputUsage(provider, src[Max(I)]).v[OutputKey(provider)]

\* C11: for every stream whose events never report usage, or report it only
\* partially, telemetry is still emitted exactly once at exhaustion, and each
\* of input_tokens and output_tokens equals the value most recently reported by
\* the stream for that field, or 0 if the stream never reported that field; an
\* event that reports one field but not the other does not change the other
\* field's last-known value.
C11_PerFieldLastKnown ==
    \A c \in Chains :
        (gen[c].state # "none" /\ Exhausted(c)) =>
            /\ Len(tel[c]) = 1
            /\ tel[c][1].payload.v["input_tokens"] = LastInput(gen[c].provider, source[c])
            /\ tel[c][1].payload.v["output_tokens"] = LastOutput(gen[c].provider, source[c])

\* The signals of chain c's latest execute sent to path, in sending order.
SignalsTo(c, path) == SelectSeq(signals[c], LAMBDA s : s.path = path)

\* The runId of the run chain c executes or has executed.
RunIdOf(c) == Runs[execution[c].run].v["runId"]

\* The track invocation was made from inside the function given to execute.
MadeInRun(rec) == \E i \in DOMAIN rec.frames : rec.frames[i].slot = "run"

\* C12: an AgentRun.execute whose body makes n tracked calls sequentially
\* produces step indices 1, 2, ..., n in call order, every ingest and step
\* payload carries the same run_id (the run's runId), and a run-end signal with
\* status "completed" is sent after the body completes successfully and after
\* the n-th step was allocated.
C12_SequentialSteps ==
    \A c \in Chains :
        execution[c].kind # "none" =>
            LET steps == SignalsTo(c, "/api/runs/step")
                ends == SignalsTo(c, "/api/runs/end")
            IN  /\ \A k \in DOMAIN steps :
                      /\ steps[k].payload.v["step_index"] = JNum(k)
                      /\ steps[k].payload.v["run_id"] = RunIdOf(c)
                /\ stepCounter[execution[c].run] = Len(steps)
                /\ \A i \in DOMAIN tel[c] :
                      MadeInRun(tel[c][i]) =>
                          /\ tel[c][i].payload.v["run_id"] = RunIdOf(c)
                          /\ tel[c][i].payload.v["step_index"] = JNum(Len(steps))
                /\ execution[c].kind = "running" => ends = <<>>
                /\ execution[c].kind = "resolved" =>
                      /\ Len(ends) = 1
                      /\ Last(signals[c]) = ends[1]
                      /\ ends[1].payload.v["status"] = JStr("completed")
                      /\ ends[1].payload.v["run_id"] = RunIdOf(c)

\* A run whose body made two tracked calls and then resolved.
C12_Witness ==
    /\ execution[1].kind = "resolved"
    /\ Len(SignalsTo(1, "/api/runs/step")) = 2
    /\ Len(signals[1]) = 4
    /\ tel[1] # <<>>
    /\ tel[1][1].payload.v["step_index"] = JNum(2)
    /\ Last(signals[1]).payload.v["status"] = JStr("completed")

\* The value the calls of log leave in field k: that of the last call that
\* supplied k (as an own property of its options), else the built-in default.
FieldAfter(log, k) ==
    LET I == {i \in DOMAIN log : k \in DOMAIN log[i].v}
    IN  IF I = {} THEN DefaultConfig.v[k] ELSE log[Max(I)].v[k]

\* C13: for every sequence of init calls, getConfig() equals the built-in
\* defaults overridden left-to-right by the fields each call supplied; a field
\* omitted by a call keeps the value it had before that call, so a value set by
\* an earlier init survives later inits that omit it.
C13_InitMergesLeftToRight ==
    /\ getConfig.t = "object"
    /\ DOMAIN getConfig.v = DOMAIN DefaultConfig.v
    /\ \A k \in DOMAIN DefaultConfig.v : getConfig.v[k] = FieldAfter(inits, k)

\* Two init calls, the first setting the project id and disabling telemetry,
\* the second supplying neither.
C13_Witness ==
    /\ Len(inits) = 2
    /\ Get(inits[1], "enabled") = JBool(FALSE)
    /\ DOMAIN inits[2].v = {"trackerApiKey"}
    /\ getConfig.v["enabled"] = JBool(FALSE)
    /\ getConfig.v["projectId"] = JStr("proj-1")
    /\ getConfig.v["trackerApiKey"] = JStr("key-2")

\* C14: while config.enabled is false, no network request of any kind is
\* issued: sendTelemetry is a no-op, and no ingest, run-start, run-step or
\* run-end POST is made by track, by the adapters or by AgentRun.execute; the
\* wrapped calls still return their normal results.
C14_DisabledSendsNothing ==
    Get(config, "enabled") = JBool(FALSE) =>
        \A c \in Chains :
            /\ \A i \in DOMAIN tel[c] :
                  tel[c][i].fetch = "none" /\ tel[c][i].promise = "resolved"
            /\ \A i \in DOMAIN signals[c] :
                  signals[c][i].fetch = "none" /\ signals[c][i].promise = "resolved"
            /\ (Wrapped(c) /\ call[c].client.kind = "resolved") =>
                  /\ result[c].kind = "returned"
                  /\ ~call[c].streaming => result[c].value = call[c].client.value
            /\ (gen[c].state # "none" /\ Exhausted(c)) =>
                  Len(tel[c]) = 1 /\ delivered[c] = source[c]

\* Telemetry is disabled and a run was executed whose body made a wrapped call
\* that returned: start, step and end signals and the ingest event were all
\* skipped.
C14_Witness ==
    /\ Get(config, "enabled") = JBool(FALSE)
    /\ execution[1].kind = "resolved"
    /\ Len(signals[1]) = 3
    /\ Wrapped(1)
    /\ result[1].kind = "returned"
    /\ Len(tel[1]) = 1
    /\ tel[1][1].fetch = "none"

\* C15: a wrapped provider call (any adapter, streaming or not) never waits
\* for a telemetry send: the call's result is delivered to the caller in every
\* execution in which the telemetry POST is still pending, completes later,
\* fails or never completes.
C15_NeverWaitsForTelemetry ==
    \A c \in Chains :
        Wrapped(c) =>
            /\ call[c].client.kind = "resolved" =>
                  result[c].kind = "returned" /\ pc[c] # "awaitClient"
            /\ call[c].client.kind = "rejected" =>
                  result[c].kind = "raised" /\ pc[c] = "idle"
            /\ (gen[c].state # "none" /\ srcState[c] = "done") =>
                  gen[c].state = "completed" /\ pc[c] = "idle"

\* A non-streaming call has returned while the POST of its telemetry is
\* still pending.
C15_Witness ==
    /\ Wrapped(1)
    /\ ~call[1].streaming
    /\ result[1].kind = "returned"
    /\ Len(tel[1]) = 1
    /\ tel[1][1].fetch = "pending"
    /\ tel[1][1].promise = "pending"

RECURSIVE CountAt(_, _)
\* The count a response carries at a path of field names, 0 when it lacks
\* any field of the path.
CountAt(o, path) ==
    IF path = <<>>
    THEN o
    ELSE IF o.t = "object" /\ Head(path) \in DOMAIN o.v
         THEN CountAt(o.v[Head(path)], Tail(path))
         ELSE JNum(0)

\* Where each provider's response carries its input, output and cached counts.
UsagePaths(provider) ==
    CASE provider = "openai" ->
            [input |-> <<"usage", "prompt_tokens">>,
             output |-> <<"usage", "completion_tokens">>,
             cached |-> <<"usage", "prompt_tokens_details", "cached_tokens">>]
      [] provider = "anthropic" ->
            [input |-> <<"usage", "input_tokens">>,
             output |-> <<"usage", "output_tokens">>,
             cached |-> <<"usage", "cache_read_input_tokens">>]
      [] provider = "gemini" ->
            [input |-> <<"response", "usageMetadata", "promptTokenCount">>,
             output |-> <<"response", "usageMetadata", "candidatesTokenCount">>,
             cached |-> <<"response", "usageMetadata", "cachedContentTokenCount">>]

\* The adapter a wrapped operation belongs to.
AdapterOf(op) ==
    CASE op = "chat.completions.create" -> "openai"
      [] op = "messages.create" -> "anthropic"
      [] OTHER -> "gemini"

\* C16: on a successful non-streaming wrapped call, the adapter returns the
\* very response object it received from the real client, unmodified, and makes
\* exactly one track call whose provider is the adapter's fixed identity and
\* whose input, output and cached token counts are read from that provider's
\* usage fields (0 for each field the response does not carry).
C16_SuccessTracked ==
    \A c \in Chains :
        (Wrapped(c) /\ ~call[c].streaming /\ call[c].client.kind = "resolved") =>
            LET paths == UsagePaths(AdapterOf(call[c].op))
                response == call[c].client.value
            IN  /\ result[c] = [kind |-> "returned", value |-> response]
                /\ Len(tel[c]) = 1
                /\ tel[c][1].payload.v["provider"] = JStr(AdapterOf(call[c].op))
                /\ tel[c][1].payload.v["input_tokens"] = CountAt(response, paths.input)
                /\ tel[c][1].payload.v["output_tokens"] = CountAt(response, paths.output)
                /\ tel[c][1].payload.v["cached_tokens"] = CountAt(response, paths.cached)
                /\ tel[c][1].payload.v["success"] = JBool(TRUE)
                /\ "error_type" \notin DOMAIN tel[c][1].payload.v

\* A Gemini generateContent call returned a result reporting cached tokens.
C16_Witness ==
    /\ Wrapped(1)
    /\ call[1].op = "generateContent"
    /\ call[1].client.kind = "resolved"
    /\ result[1].kind = "returned"
    /\ Len(tel[1]) = 1
    /\ tel[1][1].payload.v["provider"] = JStr("gemini")
    /\ tel[1][1].payload.v["cached_tokens"] = JNum(1)
    /\ tel[1][1].payload.v["input_tokens"] = JNum(2)

\* C17: for every AgentRun.execute, exactly one run-end signal is sent: with
\* status "completed" if and only if the body resolved, and with status
\* "failed" plus an error_type (the error's class name, "Error" when it has
\* none) if and only if the body raised; in the failed case execute rejects
\* with the very same error the body raised, and in the completed case it
\* resolves with the body's result.
C17_OneRunEnd ==
    \A c \in Chains :
        LET ends == SignalsTo(c, "/api/runs/end")
        IN  /\ execution[c].kind \in {"none", "running"} => ends = <<>>
            /\ execution[c].kind = "resolved" =>
                  /\ Len(ends) = 1
                  /\ ends[1].payload.v["status"] = JStr("completed")
                  /\ ends[1].payload.v["run_id"] = RunIdOf(c)
                  /\ "error_type" \notin DOMAIN ends[1].payload.v
                  /\ execution[c].value = execution[c].body
            /\ execution[c].kind = "rejected" =>
                  /\ Len(ends) = 1
                  /\ ends[1].payload.v["status"] = JStr("failed")
                  /\ ends[1].payload.v["run_id"] = RunIdOf(c)
                  /\ ends[1].payload.v["error_type"] = ClassName(execution[c].body)
                  /\ execution[c].error = execution[c].body

\* A run whose body raised an error of a named class after one tracked call.
C17_Witness ==
    /\ execution[1].kind = "rejected"
    /\ ClassName(execution[1].body) = JStr("APIError")
    /\ Len(SignalsTo(1, "/api/runs/step")) = 1
    /\ Last(signals[1]).payload.v["status"] = JStr("failed")

\* The run whose execute the track invocation was made in.
RunOf(rec) == Runs[Innermost(rec.frames, "run").v]

\* C18: every LLM call made inside run.execute through a wrapped adapter
\* without an explicit feature_tag - non-streaming, or streaming and fully
\* consumed inside the body - produces an ingest payload whose feature_tag is
\* the run's featureTag (also when execute is itself called inside an enclosing
\* observe scope with another tag), whose run_id is the run's runId, and which
\* carries a step_index.
C18_CallsInRunAttributed ==
    \A c \in Chains :
        (Wrapped(c) /\ ExplicitTag(call[c].params).t = "undefined") =>
            \A i \in DOMAIN tel[c] :
                MadeInRun(tel[c][i]) =>
                    LET p == tel[c][i].payload.v
                    IN  /\ p["feature_tag"] = RunOf(tel[c][i]).v["featureTag"]
                        /\ "run_id" \in DOMAIN p
                        /\ p["run_id"] = RunOf(tel[c][i]).v["runId"]
                        /\ "step_index" \in DOMAIN p
                        /\ p["step_index"].t = "number"

\* A streaming call made and consumed to exhaustion inside an execute that was
\* itself called inside an observe scope with another tag.
C18_Witness ==
    /\ Wrapped(1)
    /\ call[1].streaming
    /\ gen[1].state # "none"
    /\ Exhausted(1)
    /\ Len(tel[1]) = 1
    /\ MadeInRun(tel[1][1])
    /\ tel[1][1].frames[1].store = JStr("outer")
    /\ tel[1][1].payload.v["feature_tag"] = JStr("agent")

\* The two ambient slots.
Slots == {"featureTag", "run"}

\* The frames chain c is still inside once the function on top of its stack
\* has completed: an observed function leaves one frame, an executed one two.
Enclosing(c) ==
    SubSeq(scopes[c], 1, Len(scopes[c]) - (IF Last(scopes[c]).by = "execute" THEN 2 ELSE 1))

\* A step of chain c that enters scopes: its frames are added on top.
Enters(c) ==
    /\ Len(scopes'[c]) > Len(scopes[c])
    /\ SubSeq(scopes'[c], 1, Len(scopes[c])) = scopes[c]

\* The frames a step of chain c has entered.
Entered(c) == SubSeq(scopes'[c], Len(scopes[c]) + 1, Len(scopes'[c]))

\* C19: ambient scopes nest and never leak. Inside nested scopes the
\* innermost value wins; after an inner scope exits the outer value is read
\* again; after the outermost scope exits, or where no scope was ever entered,
\* the value reads as absent. The feature-tag slot and the active-run slot are
\* independent: entering or leaving one never changes what the other reads.
C19_ScopesNestAndNeverLeak ==
    /\ [](\A c \in Chains :
              scopes[c] = <<>> => getStore(c) = JUndef /\ getRun(c) = JUndef)
    /\ [][\A c \in Chains, slot \in Slots :
              /\ Enters(c) =>
                    storeOf(c, slot)' =
                        IF \E i \in DOMAIN Entered(c) : Entered(c)[i].slot = slot
                        THEN Innermost(Entered(c), slot)
                        ELSE storeOf(c, slot)
              /\ Len(scopes'[c]) < Len(scopes[c]) =>
                    /\ storeOf(c, slot)' = Innermost(Enclosing(c), slot)
                    /\ Last(scopes[c]).by = "observe" /\ slot = "run" =>
                          storeOf(c, slot)' = storeOf(c, slot)
              /\ scopes'[c] = scopes[c] => storeOf(c, slot)' = storeOf(c, slot)]_vars

\* Inside observe "a" and a run entered from there, a manual track has read
\* the run's tag and the run; the chain has since left the run and reads tag
\* "a" and no run.
C19_Witness ==
    /\ Len(tel[1]) = 1
    /\ Len(tel[1][1].frames) = 3
    /\ tel[1][1].frames[1].store = JStr("a")
    /\ tel[1][1].payload.v["feature_tag"] = JStr("agent")
    /\ "run_id" \in DOMAIN tel[1][1].payload.v
    /\ execution[1].kind = "resolved"
    /\ Len(scopes[1]) = 1
    /\ getStore(1) = JStr("a")
    /\ getRun(1) = JUndef

\* The call of chain c went through the OpenAI adapter.
OpenAICall(c) == call[c].op = "chat.completions.create"

\* C20: for OpenAI streaming calls the forwarded request has
\* stream_options.include_usage = true and keeps every other key the caller
\* supplied in stream_options; when the caller supplied no stream_options the
\* forwarded one is exactly {include_usage: true}. Non-streaming calls are
\* forwarded with no stream_options added.
C20_StreamOptionsForwarded ==
    \A c \in Chains :
        OpenAICall(c) =>
            LET given == Get(call[c].params, "stream_options")
                sent == Get(call[c].forwarded, "stream_options")
            IN  IF Truthy(Get(call[c].params, "stream"))
                THEN /\ Has(call[c].forwarded, "stream_options")
                     /\ sent.t = "object"
                     /\ Get(sent, "include_usage") = JBool(TRUE)
                     /\ given.t = "object" =>
                           /\ DOMAIN sent.v = DOMAIN given.v \cup {"include_usage"}
                           /\ \A k \in DOMAIN given.v \ {"include_usage"} :
                                  sent.v[k] = given.v[k]
                     /\ ~Has(call[c].params, "stream_options") =>
                           sent = JObj([include_usage |-> JBool(TRUE)])
                ELSE /\ Has(call[c].forwarded, "stream_options") =
                           Has(call[c].params, "stream_options")
                     /\ sent = given

\* A streaming call whose caller supplied stream_options with include_usage
\* false and another key has been forwarded and answered.
C20_Witness ==
    /\ OpenAICall(1)
    /\ Truthy(Get(call[1].params, "stream"))
    /\ Get(call[1].params, "stream_options") =
           JObj([include_usage |-> JBool(FALSE), some_other |-> JBool(TRUE)])
    /\ call[1].client.kind = "resolved"

\* The keys every ingest payload has and the keys it has on condition.
AlwaysKeys ==
    {"project_id", "provider", "model", "feature_tag", "input_tokens", "output_tokens",
     "cached_tokens", "latency_ms", "success", "environment"}
OptionalKeys ==
    [error_type |-> "errorType", end_user_id |-> "endUserId", run_id |-> "runId",
     step_index |-> "stepIndex"]

\* The latest call of chain c is a manual track call.
Manual(c) == call[c].op = "track"

\* C21: a manual track(options) call made outside any active run builds a
\* payload with provider defaulting to "custom", cached_tokens to 0, success
\* to true and environment to the configured environment; the payload
\* contains exactly project_id, provider, model, feature_tag, input_tokens,
\* output_tokens, cached_tokens, latency_ms, success and environment, and
\* contains error_type, end_user_id, run_id or step_index only when the
\* corresponding option was supplied (absent, not null, otherwise).
C21_ManualTrackPayload ==
    \A c \in Chains :
        Manual(c) =>
            \A i \in DOMAIN tel[c] :
                ~MadeInRun(tel[c][i]) =>
                    LET o == tel[c][i].options
                        p == tel[c][i].payload.v
                    IN  /\ AlwaysKeys \subseteq DOMAIN p
                        /\ DOMAIN p \subseteq AlwaysKeys \cup DOMAIN OptionalKeys
                        /\ p["project_id"] = Get(config, "projectId")
                        /\ p["model"] = Get(o, "model")
                        /\ p["input_tokens"] = Get(o, "inputTokens")
                        /\ p["output_tokens"] = Get(o, "outputTokens")
                        /\ p["latency_ms"] = Get(o, "latencyMs")
                        /\ p["provider"] =
                              IF Has(o, "provider") THEN Get(o, "provider") ELSE JStr("custom")
                        /\ p["cached_tokens"] =
                              IF Has(o, "cachedTokens") THEN Get(o, "cachedTokens") ELSE JNum(0)
                        /\ p["success"] =
                              IF Has(o, "success") THEN Get(o, "success") ELSE JBool(TRUE)
                        /\ p["environment"] =
                              IF Has(o, "environment") THEN Get(o, "environment")
                              ELSE Get(config, "environment")
                        /\ \A k \in DOMAIN OptionalKeys :
                              /\ k \in DOMAIN p =>
                                    /\ Has(o, OptionalKeys[k])
                                    /\ p[k] = Get(o, OptionalKeys[k])
                                    /\ ~Nullish(p[k])
                              /\ ~Nullish(Get(o, OptionalKeys[k])) => k \in DOMAIN p

\* After init with environment "staging", a track call with the required
\* options alone, outside every run, has built the ten-key payload.
C21_Witness ==
    /\ Manual(1)
    /\ Len(tel[1]) = 1
    /\ ~MadeInRun(tel[1][1])
    /\ DOMAIN tel[1][1].options.v = {"model", "inputTokens", "outputTokens", "latencyMs"}
    /\ DOMAIN tel[1][1].payload.v = AlwaysKeys
    /\ tel[1][1].payload.v["environment"] = JStr("staging")

\* The streaming call of chain c failed upstream: its client raised while the
\* stream was being created, or its source raised while being consumed.
CreationFailed(c) == call[c].streaming /\ call[c].client.kind = "rejected"
ConsumptionFailed(c) ==
    gen[c].state = "completed" /\ gen[c].end.kind = "raised" /\ srcState[c] = "threw"

\* C22: upstream failures on the streaming path are treated like any other
\* upstream failure: when the real client raises while a streaming call is
\* being created, or the source stream raises while it is being consumed, the
\* caller receives the original error unmodified, and a best-effort telemetry
\* event for that call is attempted before the error is re-raised.
C22_StreamingFailureTracked ==
    \A c \in Chains :
        Wrapped(c) =>
            /\ CreationFailed(c) =>
                  /\ result[c] = [kind |-> "raised", error |-> call[c].client.error]
                  /\ Len(tel[c]) >= 1
            /\ ConsumptionFailed(c) => Len(tel[c]) >= 1

\* target.p1.p2...pn read from the real object itself.
RECURSIVE RealRead(_, _)
RealRead(a, path) ==
    IF path = <<>>
    THEN Target(a)
    ELSE ReadProp(a, RealRead(a, Front(path)), Last(path))

\* The property paths of the tracked operation of each adapter, with the
\* objects it is nested in.
TrackedPaths(a) ==
    CASE a = "openai" -> {<<"chat">>, <<"chat", "completions">>,
                          <<"chat", "completions", "create">>}
      [] a = "anthropic" -> {<<"messages">>, <<"messages", "create">>}
      [] a = "gemini" -> {<<"getGenerativeModel">>}
      [] OTHER -> {<<"generateContent">>, <<"generateContentStream">>}

\* The real client has the property and it is not the tracked operation.
PassedThrough(a, path) ==
    /\ path \notin TrackedPaths(a)
    /\ RealRead(a, path).t \notin {"undefined", "TypeError"}

\* C23: every property or method of the real provider client other than the
\* tracked operation is reachable through the adapter and yields what the
\* real client yields: reading it through the adapter returns the real
\* client's value, and a method obtained this way runs with the real client
\* (the object it belongs to) as its receiver, at the top level of the
\* client and for siblings of the tracked operation under the same nesting.
C23_PassThrough ==
    \A c \in Chains :
        (call[c].op = "get" /\ PassedThrough(call[c].adapter, call[c].path)) =>
            LET real == RealRead(call[c].adapter, call[c].path)
                got == result[c].value
            IN  IF real.t = "function"
                THEN /\ got.t = "function"
                     /\ got.name = real.name
                     /\ result[c].receiver = RealRead(call[c].adapter, Front(call[c].path))
                ELSE got = real

\* await p
Awaited(p) == p.settles

\* C24: the object returned by the Gemini generateContentStream wrapper keeps
\* every field of the real result except stream: its response is the very
\* promise of the real result, and only stream is replaced by the wrapped
\* sequence; awaiting response alone, without consuming stream, yields the
\* real response.
C24_GeminiStreamResultKept ==
    \A c \in Chains :
        (call[c].op = "generateContentStream" /\ call[c].client.kind = "resolved") =>
            LET real == call[c].client.value
                got == result[c].value
            IN  /\ result[c].kind = "returned"
                /\ got.t = "object"
                /\ DOMAIN got.v = DOMAIN real.v
                /\ \A k \in DOMAIN real.v \ {"stream"} : got.v[k] = real.v[k]
                /\ got.v["response"] = real.v["response"]
                /\ Awaited(got.v["response"]) = Awaited(real.v["response"])
                /\ got.v["stream"] = WrappedStream
                /\ got.v["stream"] # real.v["stream"]

\* A Gemini stream result has been returned and its stream not yet pulled.
C24_Witness ==
    /\ call[1].op = "generateContentStream"
    /\ call[1].client.kind = "resolved"
    /\ gen[1].state = "suspendedStart"
    /\ Awaited(result[1].value.v["response"]) = ResponsePromise.settles
    /\ result[1].value.v["requestId"] = JStr("req-1")

\* Chain c invokes track in this step, and the invocation is auto-attributed:
\* made with an active run in context and no explicit runId.
Tracks(c) == tel'[c] # tel[c] /\ tel'[c] # <<>>
AutoAttributed(rec) == MadeInRun(rec) /\ Nullish(Get(rec.options, "runId"))

\* C25: whenever track runs with an active run in context and no explicit
\* runId, the run's step counter is incremented exactly once, exactly one POST
\* to /api/runs/step is issued (one sendRunApi call, a POST unless the library
\* is disabled), and the step payload and the primary ingest payload of that
\* call carry the same run_id (the active run's runId) and the same step_index
\* (the value just allocated); an explicitly supplied stepIndex is replaced by
\* the allocated one.
C25_AutoAttribution ==
    [][\A c \in Chains :
          (Tracks(c) /\ AutoAttributed(Last(tel'[c]))) =>
              LET rec == Last(tel'[c])
                  r == Innermost(rec.frames, "run").v
                  step == Last(signals'[c])
              IN  /\ stepCounter' = [stepCounter EXCEPT ![r] = @ + 1]
                  /\ signals'[c] = Append(signals[c], step)
                  /\ step.path = "/api/runs/step"
                  /\ step.fetch = IF Truthy(Get(config, "enabled")) THEN "pending" ELSE "none"
                  /\ step.payload.v["run_id"] = Runs[r].v["runId"]
                  /\ step.payload.v["step_index"] = JNum(stepCounter'[r])
                  /\ rec.payload.v["run_id"] = step.payload.v["run_id"]
                  /\ rec.payload.v["step_index"] = step.payload.v["step_index"]]_vars

\* Inside a run, a track call that supplied stepIndex 7 and no runId has been
\* given the second step of the run.
C25_Witness ==
    /\ Manual(1)
    /\ Len(tel[1]) = 1
    /\ AutoAttributed(tel[1][1])
    /\ Get(tel[1][1].options, "stepIndex") = JNum(7)
    /\ stepCounter["run-1"] = 2
    /\ tel[1][1].payload.v["step_index"] = JNum(2)
    /\ Last(signals[1]).payload.v["step_index"] = JNum(2)
    /\ Last(signals[1]).fetch = "pending"

\* C26: a track call that supplies an explicit runId while a run is active is
\* not auto-attributed: the active run's step counter is left unchanged, no
\* /api/runs/step request is sent, and the ingest payload carries the supplied
\* runId and the supplied stepIndex (no step_index when none was supplied). A
\* track call outside any run likewise changes no run's counter.
C26_ExplicitRunIdNotAttributed ==
    [][\A c \in Chains :
          Tracks(c) =>
              LET rec == Last(tel'[c])
                  o == rec.options
                  p == rec.payload.v
              IN  /\ (MadeInRun(rec) /\ ~Nullish(Get(o, "runId"))) =>
                        /\ stepCounter' = stepCounter
                        /\ signals' = signals
                        /\ p["run_id"] = Get(o, "runId")
                        /\ IF Nullish(Get(o, "stepIndex"))
                           THEN "step_index" \notin DOMAIN p
                           ELSE p["step_index"] = Get(o, "stepIndex")
                  /\ ~MadeInRun(rec) =>
                        /\ stepCounter' = stepCounter
                        /\ signals' = signals]_vars

\* Inside a run that has allocated no step, track calls that supplied a runId
\* have been made, the latest with the id of another run and stepIndex 7.
C26_Witness ==
    /\ Manual(1)
    /\ Len(tel[1]) = 1
    /\ MadeInRun(tel[1][1])
    /\ Get(tel[1][1].options, "runId") = JStr("run-x")
    /\ Get(tel[1][1].options, "stepIndex") = JNum(7)
    /\ tel[1][1].payload.v["run_id"] = JStr("run-x")
    /\ tel[1][1].payload.v["step_index"] = JNum(7)
    /\ stepCounter["run-1"] = 0
    /\ Len(signals[1]) = 1

\* The run-end signal of run r has been issued.
RunEnded(r) ==
    \E c \in Chains : \E i \in DOMAIN signals[c] :
        /\ signals[c][i].path = "/api/runs/end"
        /\ signals[c][i].payload.v["run_id"] = Runs[r].v["runId"]

\* The step signals chain c has issued for run r.
StepSignals(c, r) ==
    SelectSeq(signals[c], LAMBDA s : /\ s.path = "/api/runs/step"
                                     /\ s.payload.v["run_id"] = Runs[r].v["runId"])

\* C27: a Run's step counter changes only through its own step allocation and
\* only while its execute is in progress: in every execution, including bodies
\* that start calls without awaiting them and streams created inside the body
\* but exhausted later, no step is allocated for a run and no /api/runs/step
\* signal is issued for it after that run's run-end signal has been issued.
C27_NoStepAfterRunEnd ==
    [][\A r \in RunIds :
          RunEnded(r) =>
              /\ stepCounter'[r] = stepCounter[r]
              /\ \A c \in Chains : Len(StepSignals(c, r)') <= Len(StepSignals(c, r))]_vars

\* The step index of the latest call of chain c, where it was given one inside
\* run r; 0 otherwise.
StepOf(c, r) ==
    IF /\ tel[c] # <<>>
       /\ AutoAttributed(Last(tel[c]))
       /\ Innermost(Last(tel[c]).frames, "run") = JStr(r)
    THEN Last(tel[c]).payload.v["step_index"].v
    ELSE 0

\* C28: step indices follow the order in which track is invoked, not the
\* order in which calls were dispatched: a call whose track is invoked gets an
\* index larger than every index given before in the run; when two wrapped
\* calls are dispatched concurrently inside one run, there is a reachable
\* interleaving in which the call dispatched first receives the larger step
\* index (the one that completes first gets the smaller index).
C28_StepsFollowTrackOrder ==
    [][\A c \in Chains :
          (Tracks(c) /\ AutoAttributed(Last(tel'[c]))) =>
              \A r \in RunIds :
                  Innermost(Last(tel'[c]).frames, "run") = JStr(r) =>
                      \A d \in Chains \ {c} : StepOf(c, r)' > StepOf(d, r)]_vars

\* Chains 1 and 2 dispatched one call each, in that order, inside the run; the
\* call of chain 2 completed first and has step 1, that of chain 1 step 2.
C28_Witness ==
    /\ stepCounter["run-1"] = 2
    /\ Wrapped(1) /\ Wrapped(2)
    /\ StepOf(1, "run-1") = 2
    /\ StepOf(2, "run-1") = 1

\* The step signals recorded for run r, as pairs of chain and position.
StepsOfRun(r) ==
    {s \in UNION {{<<c, i>> : i \in DOMAIN signals[c]} : c \in Chains} :
        /\ signals[s[1]][s[2]].path = "/api/runs/step"
        /\ signals[s[1]][s[2]].payload.v["run_id"] = Runs[r].v["runId"]}

IndexOf(s) == signals[s[1]][s[2]].payload.v["step_index"].v

\* Chain c allocates a step of run r in this step.
Allocates(c, r) ==
    /\ Tracks(c)
    /\ AutoAttributed(Last(tel'[c]))
    /\ Innermost(Last(tel'[c]).frames, "run") = JStr(r)

\* C29: for every Run and every interleaving of calls inside it (sequential
\* or concurrent, across one or several execute invocations of the same Run),
\* the step indices it has allocated are pairwise distinct and form exactly
\* the set 1..k, where k is the number of auto-attributed track calls so far:
\* the counter starts at 0, only grows by one per allocation, is never reset
\* between executes, and no two calls ever share a step index.
C29_StepIndicesDistinct ==
    /\ \A r \in RunIds : stepCounter[r] = 0
    /\ [](\A r \in RunIds :
              /\ \A s, t \in StepsOfRun(r) : s # t => IndexOf(s) # IndexOf(t)
              /\ \A s \in StepsOfRun(r) : IndexOf(s) \in 1..stepCounter[r])
    /\ [][\A r \in RunIds :
              /\ stepCounter'[r] \in {stepCounter[r], stepCounter[r] + 1}
              /\ stepCounter'[r] = stepCounter[r] + 1 <=> \E c \in Chains : Allocates(c, r)
              /\ \A c \in Chains :
                    Allocates(c, r) =>
                        /\ Last(tel'[c]).payload.v["step_index"] = JNum(stepCounter[r] + 1)
                        /\ Last(signals'[c]).payload.v["step_index"] = JNum(stepCounter[r] + 1)
                        /\ \A d \in Chains \ {c} : ~Allocates(d, r)]_vars

\* The run is being executed for the second time, two calls made in its
\* first execute have their steps 1 and 2, and a call of the second execute has
\* been given step 3.
C29_Witness ==
    /\ execution[1].kind = "running"
    /\ stepCounter["run-1"] = 3
    /\ StepOf(2, "run-1") \in {1, 2}
    /\ StepOf(1, "run-1") = 3
    /\ Len(StepSignals(1, "run-1")) = 1
    /\ ~RunEnded("run-1")

\* Chain c sends a step or end signal in this step.
Signals(c) ==
    /\ signals'[c] # signals[c]
    /\ Len(signals'[c]) > Len(signals[c])
    /\ Last(signals'[c]).path # "/api/runs/start"

\* The run-start signal of the execute of chain c has been sent, first.
Started(c) ==
    /\ signals[c] # <<>>
    /\ signals[c][1].path = "/api/runs/start"
    /\ signals[c][1].payload.v["run_id"] = RunIdOf(c)

\* C30: for every AgentRun.execute, exactly one run-start signal is issued
\* (one sendRunApi call, a POST unless the library is disabled), it is issued
\* before the body starts running, and therefore before any step signal, any
\* ingest event of a call in the body and the run-end signal of that execute
\* are issued; a failing run-start send does not prevent the body from
\* running: its promise never rejects and the body's calls and the run-end
\* follow whatever the outcome of the send.
C30_RunStartFirst ==
    /\ [](\A c \in Chains :
              execution[c].kind # "none" =>
                  /\ Started(c)
                  /\ Len(SignalsTo(c, "/api/runs/start")) = 1
                  /\ signals[c][1].fetch = "none" <=> ~Truthy(Get(config, "enabled"))
                  /\ signals[c][1].promise # "rejected")
    /\ [][\A c \in Chains :
              /\ execution[c].kind = "none" /\ execution'[c].kind = "running" =>
                    /\ signals'[c] = <<signals'[c][1]>>
                    /\ tel'[c] = tel[c]
              /\ Signals(c) => Started(c)
              /\ (Tracks(c) /\ MadeInRun(Last(tel'[c]))) => Started(c)]_vars

\* The run-start send failed on the network; the body made a call, which was
\* tracked as a step of the run, and the run ended completed.
C30_Witness ==
    /\ execution[1].kind = "resolved"
    /\ signals[1][1].path = "/api/runs/start"
    /\ signals[1][1].fetch = "networkError"
    /\ Len(SignalsTo(1, "/api/runs/step")) = 1
    /\ Last(signals[1]).path = "/api/runs/end"
    /\ Wrapped(1)
    /\ tel[1] # <<>>
    /\ MadeInRun(tel[1][1])

\* The sends made so far: those of the track invocations and the run signals.
Sends == UNION {{tel[c][i] : i \in DOMAIN tel[c]} \cup {signals[c][i] : i \in DOMAIN signals[c]} :
                c \in Chains}

\* C31: telemetry is never retried, queued or batched: each sendTelemetry
\* invocation issues at most one POST to {host}/api/ingest and each run signal
\* issues at most one POST to its endpoint, whatever the outcome of that POST;
\* a failed or timed-out send leaves no pending work behind and the number of
\* POST attempts never exceeds the number of emitted events.
C31_NoRetry ==
    \A c \in Chains :
        /\ \A i \in DOMAIN tel[c] :
              /\ tel[c][i].path = "/api/ingest"
              /\ tel[c][i].posts <= 1
              /\ tel[c][i].posts = 0 <=> tel[c][i].fetch = "none"
              /\ tel[c][i].fetch \in FetchOutcomes => tel[c][i].promise = "resolved"
        /\ \A i \in DOMAIN signals[c] :
              /\ signals[c][i].posts <= 1
              /\ signals[c][i].posts = 0 <=> signals[c][i].fetch = "none"
              /\ signals[c][i].fetch \in FetchOutcomes => signals[c][i].promise = "resolved"

\* The send of a call's telemetry timed out and the send of the run-start
\* signal failed on the network: one POST each, nothing pending.
C31_Witness ==
    /\ Len(tel[1]) = 1
    /\ tel[1][1].fetch = "timeout"
    /\ tel[1][1].posts = 1
    /\ tel[1][1].promise = "resolved"
    /\ signals[1] # <<>>
    /\ signals[1][1].fetch = "networkError"
    /\ signals[1][1].posts = 1

\* The chains that hold a wrapped stream.
Streaming == {c \in Chains : gen[c].state # "none"}

\* C32: the wrapped stream is lazy and does not read ahead: it pulls an event
\* from the source only in response to a pull by the consumer, so at every
\* point the number of events pulled from the source is at most the number of
\* pulls the consumer has made, every pulled event is delivered before the
\* next one is pulled, and no telemetry for the stream is emitted while the
\* source still has undelivered events.
C32_LazyStream ==
    /\ [](\A c \in Streaming :
              /\ Len(delivered[c]) = Len(source[c])
              /\ gen[c].state = "suspendedStart" => source[c] = <<>>
              /\ tel[c] # <<>> => srcState[c] = "done" /\ delivered[c] = source[c])
    /\ [][\A c \in Chains :
              /\ source'[c] # source[c] /\ source'[c] # <<>> =>
                    /\ gen[c].state = "awaitSource"
                    /\ Len(source'[c]) = Len(source[c]) + 1
                    /\ Len(delivered[c]) = Len(source[c])
                    /\ Len(delivered'[c]) = Len(source'[c])
              /\ srcState'[c] # srcState[c] /\ srcState'[c] # "open" =>
                    gen[c].state = "awaitSource"]_vars

\* The consumer pulled twice and holds the second event; nothing has been sent.
C32_Witness ==
    /\ 1 \in Streaming
    /\ gen[1].state = "suspendedYield"
    /\ Len(source[1]) = 2
    /\ Len(delivered[1]) = 2
    /\ srcState[1] = "open"
    /\ tel[1] = <<>>

\* The counts a stream of the provider reports when consumed alone.
ExpectedAlone(provider, src) ==
    CASE provider = "openai" -> OpenAIExpected(src)
      [] provider = "anthropic" -> AnthropicExpected(src)
      [] OTHER -> GeminiExpected(src)

\* C33: accumulator state is private to its stream: when two or more wrapped
\* streams (of the same or different providers) are consumed with their events
\* arbitrarily interleaved, the telemetry event of each stream carries the
\* counts reported by that stream's own events only, together with that
\* stream's own model, feature tag and provider, exactly as if it had been
\* consumed alone.
C33_AccumulatorPrivate ==
    \A c \in Streaming :
        /\ <<gen[c].inputTokens, gen[c].outputTokens>> =
               ExpectedAlone(gen[c].provider, source[c])
        /\ Exhausted(c) =>
              LET p == tel[c][1].payload.v
              IN  /\ Len(tel[c]) = 1
                  /\ <<p["input_tokens"], p["output_tokens"]>> =
                         ExpectedAlone(call[c].provider, source[c])
                  /\ p["model"] = call[c].model
                  /\ p["feature_tag"] = JStr(ChainTag(c))
                  /\ p["provider"] = JStr(call[c].provider)

\* Two streams of different providers, consumed side by side, are exhausted:
\* one reported usage and the other, which ended later, none.
C33_Witness ==
    /\ Exhausted(1) /\ Exhausted(2)
    /\ Len(source[1]) = 2 /\ Len(source[2]) = 2
    /\ tel[1][1].payload.v["input_tokens"] = JNum(2)
    /\ tel[2][1].payload.v["input_tokens"] = JNum(0)
    /\ tel[1][1].payload.v["provider"] = JStr("openai")
    /\ tel[2][1].payload.v["provider"] = JStr("gemini")

\* The i-th track invocation / run signal of chain c is awaiting its fetch,
\* or has resolved.
TrackPending(c, i) == i \in DOMAIN tel[c] /\ tel[c][i].promise = "pending"
TrackResolved(c, i) == i \in DOMAIN tel[c] /\ tel[c][i].promise = "resolved"
SignalPending(c, i) == i \in DOMAIN signals[c] /\ signals[c][i].promise = "pending"
SignalResolved(c, i) == i \in DOMAIN signals[c] /\ signals[c][i].promise = "resolved"

\* C34: every telemetry send eventually settles: under fairness of the
\* network response and of the 2-second abort timer, every sendTelemetry,
\* track and run-signal invocation eventually resolves, including when the
\* collector never answers; a timeout is handled as a silent failure and never
\* propagates to a caller.
C34_SendsSettle ==
    /\ \A i \in 1..(MaxSteps + 2) :
          /\ TrackPending(1, i) ~> TrackResolved(1, i)
          /\ SignalPending(1, i) ~> SignalResolved(1, i)
    /\ [](\A s \in Sends : s.promise # "rejected")
    /\ [](result[1].kind = "raised" => result[1].error = call[1].client.error)

\* The collector answered none of the sends of a run with one call: the
\* telemetry of the call and the three run signals all timed out and resolved.
C34_Witness ==
    /\ Len(tel[1]) = 1
    /\ tel[1][1].fetch = "timeout"
    /\ tel[1][1].promise = "resolved"
    /\ Len(signals[1]) = 3
    /\ \A i \in DOMAIN signals[1] :
          signals[1][i].fetch = "timeout" /\ signals[1][i].promise = "resolved"

\* Chain c makes a wrapped call in this step.
Creates(c) == call[c].op = "none" /\ call'[c].op # "none"

\* The tag a call with params resolves inside frames: the explicit parameter,
\* else the ambient tag, else "unknown".
TagIn(frames, params) ==
    IF Has(params, "feature_tag") THEN Get(params, "feature_tag")
    ELSE IF Innermost(frames, "featureTag") # JUndef THEN Innermost(frames, "featureTag")
    ELSE JStr("unknown")

\* C35: the feature tag of a stream's telemetry is fixed when the streaming
\* call is made: it is the tag resolved (explicit parameter, else ambient tag,
\* else "unknown") in the context of the create/generate call, and it is
\* unaffected by the ambient tag of the context in which the stream is later
\* consumed or exhausted.
C35_TagFixedAtCreation ==
    /\ [][\A c \in Chains :
             Creates(c) => call'[c].featureTag = TagIn(scopes[c], call'[c].params)]_vars
    /\ [](\A c \in Chains :
             Exhausted(c) =>
                /\ Len(tel[c]) = 1
                /\ Get(tel[c][1].payload, "feature_tag") = call[c].featureTag)

\* A stream made inside observe "a" without a tag of its own and exhausted
\* inside observe "b" reports "a".
C35_Witness ==
    /\ Exhausted(1)
    /\ ~Has(call[1].params, "feature_tag")
    /\ call[1].featureTag = JStr("a")
    /\ Innermost(tel[1][1].frames, "featureTag") = JStr("b")
    /\ Get(tel[1][1].payload, "feature_tag") = JStr("a")

\* Chain c exhausts its wrapped stream in this step.
Exhausts(c) == ~Exhausted(c) /\ gen'[c].state = "completed" /\ gen'[c].end.kind = "exhausted"

C36_WitnessInside ==
    /\ Exhausted(1)
    /\ call[1].featureTag = JStr("unknown")
    /\ Get(tel[1][1].payload, "run_id") = JStr("run-1")
    /\ Get(tel[1][1].payload, "step_index") = JNum(1)

\* The wrapped stream of chain c was abandoned by its consumer before its
\* source was exhausted.
Abandoned(c) == gen[c].state = "completed" /\ gen[c].end.kind = "returned"

\* C37: a stream's telemetry is emitted only after the source was exhausted
\* without error: if the consumer abandons the wrapped stream before
\* exhaustion (break or return), or the source raises while being consumed, no
\* telemetry event is emitted for that stream, and a wrapped stream that is
\* never iterated pulls nothing from the source and emits nothing.
C37_OnlyAfterExhaustion ==
    \A c \in Chains :
        gen[c].state # "none" =>
            /\ tel[c] # <<>> => Exhausted(c) /\ srcState[c] = "done"
            /\ Abandoned(c) \/ ConsumptionFailed(c) => tel[c] = <<>> /\ signals[c] = <<>>
            /\ gen[c].state = "suspendedStart" =>
                  source[c] = <<>> /\ srcState[c] = "open" /\ tel[c] = <<>>
            /\ Abandoned(c) /\ delivered[c] = <<>> => source[c] = <<>>

\* The consumer broke out of the loop after the first event: no telemetry.
C37_Witness ==
    /\ Abandoned(1)
    /\ Len(delivered[1]) = 1
    /\ srcState[1] = "open"
    /\ tel[1] = <<>>

\* The source raised after its first event: no telemetry.
C37_WitnessRaised ==
    /\ ConsumptionFailed(1)
    /\ Len(delivered[1]) = 1
    /\ tel[1] = <<>>

OptionalFields == {"environment", "host", "debug", "enabled"}

\* The last defined value the init calls of log supplied for field k, or the
\* built-in default when none did.
LastDefined(log, k) ==
    LET I == {i \in DOMAIN log : Get(log[i], k) # JUndef}
    IN  IF I = {} THEN DefaultConfig.v[k] ELSE log[Max(I)].v[k]

\* C39: after any sequence of init calls, including calls that pass an
\* optional field explicitly as undefined, the config fields environment,
\* host, debug and enabled are never undefined: each holds either its built-in
\* default or the last defined value supplied.
C39_OptionalFieldsDefined ==
    \A k \in OptionalFields :
        /\ Get(getConfig, k) # JUndef
        /\ Get(getConfig, k) = LastDefined(inits, k)

====
